---- MODULE Spec2Model ----
(***************************************************************************)
(* Model of the coinage TypeScript bridge: the per-key admission limiter   *)
(* (src/lib/rateLimiter.ts), the route handlers (src/routes/crypto.ts,     *)
(* routes/orders.ts, routes/equity.ts) and the SnapTrade response/error    *)
(* bridge (src/utils/snaptrade.ts).                                        *)
(*                                                                         *)
(* JavaScript values are tagged records [t |-> tag, v |-> value]; objects  *)
(* are TLA+ records holding exactly the keys that are present, so that     *)
(* `"k" in o` is k \in DOMAIN o.v and deep equality is TLA+ equality.      *)
(* A JavaScript string value is a sequence of tokens (a token is an        *)
(* indivisible run of characters), so that trim(), startsWith() and        *)
(* JSON.parse() are computed on it; object keys and header names are       *)
(* TLA+ strings.                                                           *)
(*                                                                         *)
(* Date.now() is a non-decreasing clock; `now` is its latest reading (ms).  *)
(***************************************************************************)
EXTENDS Integers, Sequences, FiniteSets, TLC

VARIABLES now, lastExecution, req, error, shape, response,
          carrier, lookupName, headerValue, upstream, unwrapped,
          sharedSecret, provided, order, caller

vars == <<now, lastExecution, req, error, shape, response,
          carrier, lookupName, headerValue, upstream, unwrapped,
          sharedSecret, provided, order, caller>>

(***************************************************************************)
(* Bounds                                                                  *)
(***************************************************************************)
MaxRequests == 2
MaxTime == 1000
MaxDenied == 3

(***************************************************************************)
(* JavaScript values                                                       *)
(***************************************************************************)
Undef == [t |-> "undef"]
Null == [t |-> "null"]
Str(s) == [t |-> "str", v |-> s]
Num(n) == [t |-> "num", v |-> n]
Obj(f) == [t |-> "obj", v |-> f]
Arr(s) == [t |-> "arr", v |-> s]
Bool(b) == [t |-> "bool", v |-> b]

\* `v && ...` / `if (v)`: JavaScript truthiness.
Truthy(v) ==
  CASE v.t = "undef" -> FALSE
    [] v.t = "null" -> FALSE
    [] v.t = "str" -> v.v # <<>>
    [] v.t = "num" -> v.v # 0
    [] v.t = "bool" -> v.v
    [] OTHER -> TRUE

\* `v && typeof v === "object"`: a non-null object or array.
IsObject(v) == v.t \in {"obj", "arr", "hdr"}

\* `"k" in o`
HasField(o, k) == k \in DOMAIN o.v

\* `o.k` (undefined when the key is absent)
Field(o, k) == IF HasField(o, k) THEN o.v[k] ELSE Undef

\* `o?.k` on a possibly null/undefined o
OptField(o, k) == IF o.t \in {"undef", "null"} THEN Undef
                  ELSE IF o.t = "obj" THEN Field(o, k) ELSE Undef

\* `a ?? b`
Coalesce(a, b) == IF a.t \in {"undef", "null"} THEN b ELSE a

\* a one-token string
S1(tok) == Str(<<tok>>)

Digit == <<"0", "1", "2", "3", "4", "5", "6", "7", "8", "9">>

RECURSIVE NatToString(_)
NatToString(n) ==
  IF n < 10 THEN <<Digit[n + 1]>> ELSE Append(NatToString(n \div 10), Digit[(n % 10) + 1])

\* Number.prototype.toString for integers
NumToString(n) == IF n < 0 THEN <<"-">> \o NatToString(0 - n) ELSE NatToString(n)

\* String(v)
ToStringJS(v) ==
  CASE v.t = "str" -> v.v
    [] v.t = "num" -> NumToString(v.v)
    [] v.t = "undef" -> <<"undefined">>
    [] v.t = "null" -> <<"null">>
    [] OTHER -> <<"[object Object]">>

(***************************************************************************)
(* Header carriers (HeadersLike).  A carrier is                            *)
(*   [t |-> "hdr", get, forEach, own, entries]                             *)
(* get     : "none" | "ci" | "cs" | "throws"  (lookup method, if any, and  *)
(*           whether it matches names case-insensitively, exactly, or      *)
(*           throws)                                                       *)
(* forEach : "none" | "iter" | "throws"                                    *)
(* own     : TRUE when the entries are own enumerable properties (a plain  *)
(*           mapping), so that Object.entries() sees them                  *)
(* entries : sequence of <<key, value>>                                    *)
(***************************************************************************)
Hdr(g, f, o, es) == [t |-> "hdr", get |-> g, forEach |-> f, own |-> o, entries |-> es]

PlainHeaders(es) == Hdr("none", "none", TRUE, es)
GetHeaders(es) == Hdr("ci", "none", FALSE, es)
FetchHeaders(es) == Hdr("ci", "iter", FALSE, es)

\* String.prototype.toLowerCase over the header-name spellings in use.
ToLowerCase(s) ==
  CASE s \in {"X-Request-ID", "X-REQUEST-ID", "X-Request-Id"} -> "x-request-id"
    [] s \in {"X-RateLimit-Limit", "X-RATELIMIT-LIMIT"} -> "x-ratelimit-limit"
    [] s \in {"X-RateLimit-Remaining", "X-RATELIMIT-REMAINING"} -> "x-ratelimit-remaining"
    [] s \in {"X-RateLimit-Reset", "X-RATELIMIT-RESET"} -> "x-ratelimit-reset"
    [] s \in {"Retry-After", "RETRY-AFTER"} -> "retry-after"
    [] OTHER -> s

\* Index of the first entry whose key satisfies the match, 0 when none.
RECURSIVE FirstIndex(_, _, _, _)
FirstIndex(es, name, ci, i) ==
  IF i > Len(es) THEN 0
  ELSE IF (IF ci THEN ToLowerCase(es[i][1]) = ToLowerCase(name) ELSE es[i][1] = name)
       THEN i
       ELSE FirstIndex(es, name, ci, i + 1)

\* headers.get(name) for a carrier with a working lookup method
HeadersGet(headers, name) ==
  LET i == FirstIndex(headers.entries, name, headers.get = "ci", 1)
  IN IF i = 0 THEN Undef ELSE headers.entries[i][2]

\* typeof value === "string" ? value : String(value)
Stringify(v) == Str(ToStringJS(v))

\* what stands for an exception on its way out of a block
Thrown == [t |-> "thrown"]

\* the try block of readHeaderValue: the value it returns, Undef when it runs
\* to its end, Thrown when the lookup or the enumeration method throws
readHeaderValueTry(headers, headerName) ==
  LET lowerCaseName == ToLowerCase(headerName)
      candidateWithGet ==
        IF headers.get \in {"ci", "cs"}
        THEN Coalesce(HeadersGet(headers, headerName), HeadersGet(headers, lowerCaseName))
        ELSE Undef
      fi == FirstIndex(headers.entries, lowerCaseName, TRUE, 1)
      match == IF headers.forEach = "iter" /\ fi # 0
               THEN Stringify(headers.entries[fi][2]) ELSE Undef
      oi == IF headers.own THEN FirstIndex(headers.entries, lowerCaseName, TRUE, 1) ELSE 0
  IN IF headers.get = "throws" THEN Thrown
     ELSE IF candidateWithGet.t = "str" THEN candidateWithGet
     ELSE IF candidateWithGet.t \notin {"undef", "null"} THEN Stringify(candidateWithGet)
     ELSE IF headers.forEach = "throws" THEN Thrown
     ELSE IF Truthy(match) THEN match
     ELSE IF oi # 0 THEN Stringify(headers.entries[oi][2])
     ELSE Undef

\* readHeaderValue without its catch: the exception leaves the function
readHeaderValueUncaught(headers, headerName) ==
  IF ~Truthy(headers) \/ ~IsObject(headers) THEN Undef
  ELSE IF headers.t # "hdr" THEN Undef
  ELSE readHeaderValueTry(headers, headerName)

\* readHeaderValue(headers, headerName): string | undefined
readHeaderValue(headers, headerName) ==
  IF ~Truthy(headers) \/ ~IsObject(headers) THEN Undef
  ELSE IF headers.t # "hdr" THEN Undef
  ELSE LET r == readHeaderValueTry(headers, headerName)
       IN IF r = Thrown THEN Undef ELSE r

\* extractRequestId(headers)
extractRequestId(headers) == Coalesce(readHeaderValue(headers, "x-request-id"), Undef)

\* pickRateLimitHeaders(headers)
pickRateLimitHeaders(headers) ==
  [limit |-> readHeaderValue(headers, "x-ratelimit-limit"),
   remaining |-> readHeaderValue(headers, "x-ratelimit-remaining"),
   reset |-> readHeaderValue(headers, "x-ratelimit-reset")]

(***************************************************************************)
(* The Hono context: the response headers set so far, and c.json().        *)
(***************************************************************************)
ResponseHeaderNames ==
  {"X-SnapTrade-Request-ID", "X-Request-ID", "X-SnapTrade-RateLimit-Limit",
   "X-SnapTrade-RateLimit-Remaining", "X-SnapTrade-RateLimit-Reset",
   "Retry-After"}

\* a fresh context: no header set
NewContext == [h \in ResponseHeaderNames |-> Undef]

\* c.header(name, value)
SetHeader(c, name, value) == [c EXCEPT ![name] = value]

\* `if (value) c.header(name, String(value))`
SetHeaderIf(c, name, value) ==
  IF Truthy(value) THEN SetHeader(c, name, Stringify(value)) ELSE c

\* JSON.stringify as c.json applies it: a key whose value is undefined is
\* dropped, an undefined array element becomes null.
RECURSIVE Serialize(_)
Serialize(v) ==
  CASE v.t = "obj" ->
         Obj([k \in {k \in DOMAIN v.v : v.v[k].t # "undef"} |-> Serialize(v.v[k])])
    [] v.t = "arr" ->
         Arr([i \in 1..Len(v.v) |-> IF v.v[i].t = "undef" THEN Null ELSE Serialize(v.v[i])])
    [] OTHER -> v

\* c.json(body, status): the response handed to the framework
Json(c, body, status) == [status |-> status, body |-> Serialize(body), headers |-> c]

(***************************************************************************)
(* String.prototype.trim, startsWith and JSON.parse on token sequences.    *)
(***************************************************************************)
\* whitespace JSON.parse skips
JsonWhitespace == {" ", "\n", "\t"}

\* whitespace trim() strips: JSON whitespace and more (U+00A0, U+FEFF, ...)
TrimWhitespace == JsonWhitespace \cup {"nbsp"}

RECURSIVE TrimStart(_)
TrimStart(s) ==
  IF s # <<>> /\ Head(s) \in TrimWhitespace THEN TrimStart(Tail(s)) ELSE s

RECURSIVE TrimEnd(_)
TrimEnd(s) ==
  IF s # <<>> /\ s[Len(s)] \in TrimWhitespace
  THEN TrimEnd(SubSeq(s, 1, Len(s) - 1)) ELSE s

\* s.trim()
Trim(s) == TrimEnd(TrimStart(s))

\* s.startsWith(tok) for a one-character tok
StartsWith(s, tok) == s # <<>> /\ Head(s) = tok

\* scalar JSON literals: token -> value
ScalarTokens == {"null", "0", "1", "429", "\"code\"", "\"detail\"", "\"RATE_LIMITED\"", "\"x\""}

ScalarValue(tok) ==
  CASE tok = "null" -> Null
    [] tok = "0" -> Num(0)
    [] tok = "1" -> Num(1)
    [] tok = "429" -> Num(429)
    [] tok = "\"code\"" -> S1("code")
    [] tok = "\"detail\"" -> S1("detail")
    [] tok = "\"RATE_LIMITED\"" -> S1("RATE_LIMITED")
    [] OTHER -> S1("x")

\* JSON string literals usable as object keys: token -> key
KeyTokens == {"\"code\"", "\"detail\"", "\"x\""}

KeyOf(tok) ==
  CASE tok = "\"code\"" -> "code"
    [] tok = "\"detail\"" -> "detail"
    [] OTHER -> "x"

ParseFail == [ok |-> FALSE]

RECURSIVE SkipWs(_, _)
SkipWs(s, i) == IF i <= Len(s) /\ s[i] \in JsonWhitespace THEN SkipWs(s, i + 1) ELSE i

RECURSIVE ParseValue(_, _)
RECURSIVE ParseMembers(_, _, _)
RECURSIVE ParseElements(_, _, _)

\* value at or after position i: [ok, val, next]
ParseValue(s, i) ==
  LET j == SkipWs(s, i)
  IN IF j > Len(s) THEN ParseFail
     ELSE IF s[j] = "{" THEN
       LET k == SkipWs(s, j + 1)
       IN IF k <= Len(s) /\ s[k] = "}"
          THEN [ok |-> TRUE, val |-> Obj(<<>>), next |-> k + 1]
          ELSE ParseMembers(s, k, <<>>)
     ELSE IF s[j] = "[" THEN
       LET k == SkipWs(s, j + 1)
       IN IF k <= Len(s) /\ s[k] = "]"
          THEN [ok |-> TRUE, val |-> Arr(<<>>), next |-> k + 1]
          ELSE ParseElements(s, k, <<>>)
     ELSE IF s[j] \in ScalarTokens
       THEN [ok |-> TRUE, val |-> ScalarValue(s[j]), next |-> j + 1]
     ELSE ParseFail

\* members of an object from position i (a key is expected), acc the pairs so far
ParseMembers(s, i, acc) ==
  LET c == SkipWs(s, i + 1)
  IN IF i > Len(s) \/ s[i] \notin KeyTokens THEN ParseFail
     ELSE IF c > Len(s) \/ s[c] # ":" THEN ParseFail
     ELSE
       LET r == ParseValue(s, c + 1)
       IN IF ~r.ok THEN ParseFail
          ELSE
            LET acc2 == (KeyOf(s[i]) :> r.val) @@ acc
                e == SkipWs(s, r.next)
            IN IF e > Len(s) THEN ParseFail
               ELSE IF s[e] = "}" THEN [ok |-> TRUE, val |-> Obj(acc2), next |-> e + 1]
               ELSE IF s[e] = "," THEN ParseMembers(s, SkipWs(s, e + 1), acc2)
               ELSE ParseFail

\* elements of an array from position i, acc the elements so far
ParseElements(s, i, acc) ==
  LET r == ParseValue(s, i)
  IN IF ~r.ok THEN ParseFail
     ELSE
       LET acc2 == Append(acc, r.val)
           e == SkipWs(s, r.next)
       IN IF e > Len(s) THEN ParseFail
          ELSE IF s[e] = "]" THEN [ok |-> TRUE, val |-> Arr(acc2), next |-> e + 1]
          ELSE IF s[e] = "," THEN ParseElements(s, e + 1, acc2)
          ELSE ParseFail

\* JSON.parse(s): [ok |-> TRUE, val] or [ok |-> FALSE] when it throws
JSONParse(s) ==
  LET r == ParseValue(s, 1)
  IN IF r.ok /\ SkipWs(s, r.next) = Len(s) + 1 THEN [ok |-> TRUE, val |-> r.val]
     ELSE ParseFail

(***************************************************************************)
(* src/utils/snaptrade.ts: the response / error bridge                     *)
(***************************************************************************)
\* unwrapSnaptradeResponse taking every result for the payload itself
unwrapSnaptradeResponseBare(result) ==
  [data |-> result, requestId |-> Undef, headers |-> Undef]

\* unwrapSnaptradeResponse(result): [data, requestId, headers]
unwrapSnaptradeResponse(result) ==
  IF Truthy(result) /\ result.t = "obj" /\ HasField(result, "data")
  THEN LET maybeHeaders == Field(result, "headers")
       IN [data |-> Field(result, "data"),
           requestId |-> extractRequestId(maybeHeaders),
           headers |-> maybeHeaders]
  ELSE [data |-> result, requestId |-> Undef, headers |-> Undef]

\* propagateRequestId(c, requestId)
propagateRequestId(c, requestId) ==
  IF Truthy(requestId) THEN SetHeader(c, "X-SnapTrade-Request-ID", requestId) ELSE c

\* propagateRateLimitHeaders(c, headers)
propagateRateLimitHeaders(c, headers) ==
  IF ~Truthy(headers) THEN c
  ELSE
    LET limit == readHeaderValue(headers, "x-ratelimit-limit")
        remaining == readHeaderValue(headers, "x-ratelimit-remaining")
        reset == readHeaderValue(headers, "x-ratelimit-reset")
        c1 == SetHeaderIf(c, "X-SnapTrade-RateLimit-Limit", limit)
        c2 == SetHeaderIf(c1, "X-SnapTrade-RateLimit-Remaining", remaining)
    IN SetHeaderIf(c2, "X-SnapTrade-RateLimit-Reset", reset)

\* validationError(c, error): 400 with the flattened issues
validationError(c, issues) ==
  Json(c, Obj([error |-> S1("validation_error"),
               message |-> S1("Validation failed"),
               issues |-> issues]), Num(400))

\* isAxiosLikeError looking at the response key only
isAxiosLikeErrorNoMessage(err) ==
  Truthy(err) /\ err.t = "obj" /\ HasField(err, "response")

\* isAxiosLikeError(error)
isAxiosLikeError(err) ==
  Truthy(err) /\ err.t = "obj" /\ HasField(err, "message") /\ HasField(err, "response")

\* isSnaptradeSdkError(error)
isSnaptradeSdkError(err) ==
  IF ~Truthy(err) \/ err.t # "obj" THEN FALSE
  ELSE
    LET hasMessage == Field(err, "message").t = "str"
        hasStatus == Field(err, "status").t = "num" \/ Field(err, "statusCode").t = "num"
        hasBodyOrHeaders == HasField(err, "responseBody") \/ HasField(err, "headers")
    IN hasMessage /\ hasStatus /\ hasBodyOrHeaders

\* `error.response?.status ?? 502`
AxiosStatus(err) == Coalesce(OptField(Field(err, "response"), "status"), Num(502))

\* the status selection of the SDK-error branch: statusCode, then status, then 502
SdkStatus(err) ==
  LET statusCode == Field(err, "statusCode")
      status == Field(err, "status")
  IN IF statusCode.t = "num" /\ statusCode.v > 0 THEN statusCode
     ELSE IF status.t = "num" /\ status.v > 0 THEN status
     ELSE Num(502)

\* the header propagation without the X-Request-ID alias
ErrorHeadersPrimaryOnly(c, headers) ==
  LET requestId == readHeaderValue(headers, "x-request-id")
      c1 == SetHeaderIf(c, "X-SnapTrade-Request-ID", requestId)
      rateLimit == pickRateLimitHeaders(headers)
      c3 == SetHeaderIf(c1, "X-SnapTrade-RateLimit-Limit", rateLimit.limit)
      c4 == SetHeaderIf(c3, "X-SnapTrade-RateLimit-Remaining", rateLimit.remaining)
      c5 == SetHeaderIf(c4, "X-SnapTrade-RateLimit-Reset", rateLimit.reset)
      retryAfter == readHeaderValue(headers, "retry-after")
  IN SetHeaderIf(c5, "Retry-After", retryAfter)

\* the header propagation shared by both classified branches
ErrorHeaders(c, headers) ==
  LET requestId == readHeaderValue(headers, "x-request-id")
      c1 == SetHeaderIf(c, "X-SnapTrade-Request-ID", requestId)
      c2 == SetHeaderIf(c1, "X-Request-ID", requestId)
      rateLimit == pickRateLimitHeaders(headers)
      c3 == SetHeaderIf(c2, "X-SnapTrade-RateLimit-Limit", rateLimit.limit)
      c4 == SetHeaderIf(c3, "X-SnapTrade-RateLimit-Remaining", rateLimit.remaining)
      c5 == SetHeaderIf(c4, "X-SnapTrade-RateLimit-Reset", rateLimit.reset)
      retryAfter == readHeaderValue(headers, "retry-after")
  IN SetHeaderIf(c5, "Retry-After", retryAfter)

\* the body selection wrapping an object payload in an envelope
ErrorBodyEnveloped(c, data, message, status) ==
  LET fallback(detail) == Obj([code |-> S1("SNAPTRADE_ERROR"), detail |-> detail])
  IN IF Truthy(data) /\ IsObject(data)
     THEN Json(c, Obj([error |-> S1("snaptrade_error"), status |-> status,
                       details |-> data]), status)
     ELSE IF data.t = "str" THEN Json(c, fallback(data), status)
     ELSE Json(c, fallback(message), status)

\* the body selection never parsing a string payload
ErrorBodyUnparsed(c, data, message, status) ==
  LET fallback(detail) == Obj([code |-> S1("SNAPTRADE_ERROR"), detail |-> detail])
  IN IF Truthy(data) /\ IsObject(data) THEN Json(c, data, status)
     ELSE IF data.t = "str" THEN Json(c, fallback(data), status)
     ELSE Json(c, fallback(message), status)

\* the body selection putting the trimmed string in the fallback
ErrorBodyTrimmedDetail(c, data, message, status) ==
  LET fallback(detail) == Obj([code |-> S1("SNAPTRADE_ERROR"), detail |-> detail])
  IN IF Truthy(data) /\ IsObject(data) THEN Json(c, data, status)
     ELSE IF data.t = "str" THEN
       LET trimmed == Trim(data.v)
           parsed == JSONParse(trimmed)
       IN IF (StartsWith(trimmed, "{") \/ StartsWith(trimmed, "["))
             /\ parsed.ok /\ Truthy(parsed.val) /\ IsObject(parsed.val)
          THEN Json(c, parsed.val, status)
          ELSE Json(c, fallback(Str(trimmed)), status)
     ELSE Json(c, fallback(message), status)

\* the body selection answering a failure without payload like an unknown one
ErrorBodyGenericLastResort(c, data, message, status) ==
  LET fallback(detail) == Obj([code |-> S1("SNAPTRADE_ERROR"), detail |-> detail])
  IN IF Truthy(data) /\ IsObject(data) THEN Json(c, data, status)
     ELSE IF data.t = "str" THEN
       LET trimmed == Trim(data.v)
           parsed == JSONParse(trimmed)
       IN IF (StartsWith(trimmed, "{") \/ StartsWith(trimmed, "["))
             /\ parsed.ok /\ Truthy(parsed.val) /\ IsObject(parsed.val)
          THEN Json(c, parsed.val, status)
          ELSE Json(c, fallback(data), status)
     ELSE Json(c, Obj([error |-> S1("internal_error"),
                       message |-> S1("Failed to process SnapTrade request")]), Num(500))

\* the body selection shared by both classified branches
ErrorBody(c, data, message, status) ==
  LET fallback(detail) == Obj([code |-> S1("SNAPTRADE_ERROR"), detail |-> detail])
  IN IF Truthy(data) /\ IsObject(data) THEN Json(c, data, status)
     ELSE IF data.t = "str" THEN
       LET trimmed == Trim(data.v)
           parsed == JSONParse(trimmed)
       IN IF (StartsWith(trimmed, "{") \/ StartsWith(trimmed, "["))
             /\ parsed.ok /\ Truthy(parsed.val) /\ IsObject(parsed.val)
          THEN Json(c, parsed.val, status)
          ELSE Json(c, fallback(data), status)
     ELSE Json(c, fallback(message), status)

\* which branch of handleSnaptradeError a caught value takes
Classify(err) ==
  IF isAxiosLikeError(err) THEN "A"
  ELSE IF isSnaptradeSdkError(err) THEN "B"
  ELSE "Unknown"

\* handleSnaptradeError(c, error)
handleSnaptradeError(c, err) ==
  CASE Classify(err) = "A" ->
         LET resp == Field(err, "response")
         IN ErrorBody(ErrorHeaders(c, OptField(resp, "headers")),
                      OptField(resp, "data"), Field(err, "message"), AxiosStatus(err))
    [] Classify(err) = "B" ->
         ErrorBody(ErrorHeaders(c, Field(err, "headers")),
                   Field(err, "responseBody"), Field(err, "message"), SdkStatus(err))
    [] OTHER ->
         Json(c, Obj([error |-> S1("internal_error"),
                      message |-> S1("Failed to process SnapTrade request")]), Num(500))

(***************************************************************************)
(* src/lib/rateLimiter.ts: PerKeyRateLimiter                               *)
(***************************************************************************)
\* new PerKeyRateLimiter(1_000)
minIntervalMs == 1000

\* tryAcquire that grants without recording the grant
tryAcquireNoRecord(m, key, t) ==
  LET last == m[key]
  IN IF last = Undef \/ t - last.v >= minIntervalMs
     THEN [result |-> [allowed |-> TRUE, retryAfterMs |-> 0], map |-> m]
     ELSE [result |-> [allowed |-> FALSE, retryAfterMs |-> minIntervalMs - (t - last.v)],
           map |-> m]

\* tryAcquire comparing with > where the code has >=
tryAcquireStrictlyGreater(m, key, t) ==
  LET last == m[key]
  IN IF last = Undef \/ t - last.v > minIntervalMs
     THEN [result |-> [allowed |-> TRUE, retryAfterMs |-> 0],
           map |-> [m EXCEPT ![key] = Num(t)]]
     ELSE [result |-> [allowed |-> FALSE, retryAfterMs |-> minIntervalMs - (t - last.v)],
           map |-> m]

\* tryAcquire reading a missing entry as timestamp 0
tryAcquireUnseenAsZero(m, key, t) ==
  LET last == IF m[key] = Undef THEN 0 ELSE m[key].v
  IN IF t - last >= minIntervalMs
     THEN [result |-> [allowed |-> TRUE, retryAfterMs |-> 0],
           map |-> [m EXCEPT ![key] = Num(t)]]
     ELSE [result |-> [allowed |-> FALSE, retryAfterMs |-> minIntervalMs - (t - last)],
           map |-> m]

\* tryAcquire recording the time of a denied call as well
tryAcquireRecordsDenied(m, key, t) ==
  LET last == m[key]
  IN IF last = Undef \/ t - last.v >= minIntervalMs
     THEN [result |-> [allowed |-> TRUE, retryAfterMs |-> 0],
           map |-> [m EXCEPT ![key] = Num(t)]]
     ELSE [result |-> [allowed |-> FALSE, retryAfterMs |-> minIntervalMs - (t - last.v)],
           map |-> [m EXCEPT ![key] = Num(t)]]

\* tryAcquire(key) with Date.now() = t on the map m (key -> last granted
\* timestamp, Undef for a key never seen): the result and the map afterwards
tryAcquire(m, key, t) ==
  LET last == m[key]
  IN IF last = Undef \/ t - last.v >= minIntervalMs
     THEN [result |-> [allowed |-> TRUE, retryAfterMs |-> 0],
           map |-> [m EXCEPT ![key] = Num(t)]]
     ELSE [result |-> [allowed |-> FALSE, retryAfterMs |-> minIntervalMs - (t - last.v)],
           map |-> m]

(***************************************************************************)
(* The routes                                                              *)
(***************************************************************************)
GetRoutes == {"/crypto/pairs", "/crypto/quote"}
PostRoutes == {"/crypto/preview", "/crypto/place", "/orders/detail",
               "/equity/impact", "/equity/place"}
Routes == GetRoutes \cup PostRoutes

AccountIds == {"acct-1", "acct-2"}
UserIds == {"user-1", "user-2"}

\* `${payload.accountId}:${payload.userId}`
LimiterKey(accountId, userId) == <<accountId, ":", userId>>

LimiterKeys == {LimiterKey(a, u) : a \in AccountIds, u \in UserIds}

\* the requests a caller can send: a body (or query) that passes the route's
\* schema, one that fails it, or (POST only) one that is not JSON at all
Inputs ==
  {[route |-> r, body |-> b, accountId |-> a, userId |-> u] :
     r \in Routes, b \in {"valid", "invalid", "unparseable"},
     a \in AccountIds, u \in UserIds}

\* Only /crypto/place derives anything from the identifiers of a valid body,
\* so the other requests all carry the first pair; acct-2 has one user.
RequestInputs ==
  {i \in Inputs :
     /\ (i.body = "unparseable" => i.route \in PostRoutes)
     /\ (i.route # "/crypto/place" \/ i.body # "valid"
           => i.accountId = "acct-1" /\ i.userId = "user-1")
     /\ (i.accountId = "acct-2" => i.userId = "user-1")}

\* error.flatten() of a schema failure
SampleIssues ==
  Obj([formErrors |-> Arr(<<>>),
       fieldErrors |-> Obj([accountId |-> Arr(<<S1("Invalid uuid")>>)])])

\* parseJsonBody's non-Zod branch
InvalidJsonResponse(c) ==
  Json(c, Obj([error |-> S1("invalid_json"),
               message |-> S1("Unable to parse request body")]), Num(400))

\* the 429 with Retry-After rounded down and no floor of 1
RateLimitedResponseFloor(c, retryAfterMs) ==
  LET c1 == SetHeader(c, "Retry-After", Str(NumToString(retryAfterMs \div 1000)))
  IN Json(c1, Obj([error |-> S1("rate_limited"),
                   message |-> S1("Crypto order placement is limited to one request per second per account."),
                   retryAfterMs |-> Num(retryAfterMs)]), Num(429))

\* the 429 reporting retryAfterMs in whole seconds
RateLimitedResponseWholeSeconds(c, retryAfterMs) ==
  LET seconds == IF (retryAfterMs + 999) \div 1000 > 1
                 THEN (retryAfterMs + 999) \div 1000 ELSE 1
      c1 == SetHeader(c, "Retry-After", Str(NumToString(seconds)))
  IN Json(c1, Obj([error |-> S1("rate_limited"),
                   message |-> S1("Crypto order placement is limited to one request per second per account."),
                   retryAfterMs |-> Num(seconds)]), Num(429))

\* the 429 of /crypto/place
RateLimitedResponse(c, retryAfterMs) ==
  LET seconds == IF (retryAfterMs + 999) \div 1000 > 1
                 THEN (retryAfterMs + 999) \div 1000 ELSE 1
      c1 == SetHeader(c, "Retry-After", Str(NumToString(seconds)))
  IN Json(c1, Obj([error |-> S1("rate_limited"),
                   message |-> S1("Crypto order placement is limited to one request per second per account."),
                   retryAfterMs |-> Num(retryAfterMs)]), Num(429))

\* the success tail of every handler: unwrap, propagate, c.json(data)
SuccessResponse(c, result) ==
  LET u == unwrapSnaptradeResponse(result)
      c1 == propagateRequestId(c, u.requestId)
      c2 == propagateRateLimitHeaders(c1, u.headers)
  IN Json(c2, u.data, Num(200))

(***************************************************************************)
(* What the upstream client can hand back                                  *)
(***************************************************************************)
SamplePayload == Obj([order_id |-> S1("abc")])

SampleErrorBody ==
  Obj([code |-> S1("1119"), detail |-> S1("Order rejected by brokerage"),
       raw_error |-> Obj([body |-> Obj([error_code |-> S1("SOME_BROKER_CODE")])])])

SampleHeaders ==
  GetHeaders(<<<<"x-request-id", S1("req-1")>>, <<"x-ratelimit-limit", S1("60")>>,
               <<"x-ratelimit-remaining", S1("59")>>, <<"x-ratelimit-reset", S1("15")>>,
               <<"retry-after", S1("3")>>>>)

UpstreamResults ==
  {Obj([data |-> SamplePayload, headers |-> SampleHeaders])}

UpstreamFailures ==
  {Obj([message |-> S1("Request failed"), status |-> Num(400),
        headers |-> SampleHeaders, responseBody |-> SampleErrorBody]),
   Obj([message |-> S1("socket hang up")])}

(***************************************************************************)
(* State                                                                   *)
(*   now            Date.now()                                             *)
(*   lastExecution  tradingLimiter's map                                   *)
(*   req            the requests: where each handler stands (pc), what was *)
(*                  sent (in), its tryAcquire call (acquire), how often it *)
(*                  called the upstream client (calls), what the upstream  *)
(*                  handed back (outcome), how many responses it produced  *)
(*                  (responses) and the response (resp)                    *)
(*   error, shape, response                                                *)
(*                  a caught value, the branch handleSnaptradeError takes  *)
(*                  for it and the response it builds (SpecNormalize)      *)
(*   carrier, lookupName, headerValue                                      *)
(*                  the arguments of a readHeaderValue call and what it    *)
(*                  returned (SpecHeaders)                                 *)
(*   caller         a caller of tryAcquire that retries with one key: its  *)
(*                  grants so far, when they were given, and the denials   *)
(*                  since the first (SpecRetry)                            *)
(*   order          one order body on its way through its handler          *)
(*                  (SpecOrders)                                           *)
(*   sharedSecret, provided                                                *)
(*                  env.COINAGE_TS_SHARED_SECRET and, per request, the     *)
(*                  X-Coinage-TS-Secret header it was sent with (SpecAuth) *)
(*   upstream, unwrapped                                                   *)
(*                  what an awaited upstream call resolved with and what   *)
(*                  unwrapSnaptradeResponse made of it (SpecUnwrap)        *)
(***************************************************************************)
Requests == 1..MaxRequests

\* the instants at which Date.now() is read
TimePoints == {t \in 0..MaxTime : t % minIntervalMs \in {0, 1}}

NoInput == [route |-> "", body |-> "", accountId |-> "", userId |-> ""]
NoAcquire == [called |-> FALSE, at |-> 0, allowed |-> FALSE, retryAfterMs |-> 0]
NoResponse == [status |-> Undef, body |-> Undef, headers |-> NewContext]

IdleRequest ==
  [pc |-> "idle", in |-> NoInput, acquire |-> NoAcquire, calls |-> 0,
   outcome |-> "none", responses |-> 0, resp |-> NoResponse]

\* nothing read, nothing resolved yet
NotRead == [t |-> "unread"]
NoResult == [t |-> "noresult"]
NotUnwrapped == [t |-> "notunwrapped"]
NoOrder == [pc |-> "idle"]
NoCaller == [grants |-> 0, t0 |-> 0, t1 |-> 0, denied |-> 0]

\* no readHeaderValue call under way
HeadersIdle ==
  /\ carrier = Undef
  /\ lookupName = ""
  /\ headerValue = NotRead

\* no upstream result at hand
UnwrapIdle ==
  /\ upstream = NoResult
  /\ unwrapped = NotUnwrapped

\* no shared secret configured, no request received, no order submitted,
\* no retrying caller
NoSecret ==
  /\ sharedSecret = Undef
  /\ provided = [i \in Requests |-> Undef]
  /\ order = NoOrder
  /\ caller = NoCaller

ServerInit ==
  /\ now = 0
  /\ lastExecution = [k \in LimiterKeys |-> Undef]
  /\ req = [i \in Requests |-> IdleRequest]
  /\ NoSecret

Init ==
  /\ ServerInit
  /\ error = Undef
  /\ shape = "none"
  /\ response = NoResponse
  /\ HeadersIdle
  /\ UnwrapIdle

\* What the handlers return, for each thing the upstream can hand back: the
\* 400 of parseQuery and parseJsonBody, the success tail and the catch block.
ValidationErrorResponse == validationError(NewContext, SampleIssues)

InvalidJsonBodyResponse == InvalidJsonResponse(NewContext)

SuccessResponses ==
  [result \in UpstreamResults |-> SuccessResponse(NewContext, result)]

FailureResponses ==
  [err \in UpstreamFailures |-> handleSnaptradeError(NewContext, err)]

\* the handler returns r: the request's one response
Respond(q, r) == [q EXCEPT !.pc = "done", !.responses = @ + 1, !.resp = r]

\* the handler calls the upstream client and awaits it
CallUpstream(q) == [q EXCEPT !.pc = "upstream", !.calls = @ + 1]

\* the route's handler starts on the request q
HandlerEntry(q) ==
  IF q.in.route \in GetRoutes
  THEN IF q.in.body = "valid" THEN CallUpstream(q)
       ELSE Respond(q, ValidationErrorResponse)
  ELSE [q EXCEPT !.pc = "body"]

\* A request arrives.  A GET handler runs parseQuery and, when the query is
\* valid, reaches its upstream call without suspending; a POST handler
\* suspends in `await c.req.json()`.
Receive(i, input) ==
  /\ req[i].pc = "idle"
  /\ (i > 1 => req[i - 1].pc # "idle")
  /\ req' = [req EXCEPT ![i] = HandlerEntry([req[i] EXCEPT !.in = input])]
  /\ UNCHANGED <<now, lastExecution, error, shape, response, carrier, lookupName,
               headerValue, upstream, unwrapped,
                 sharedSecret, provided, order, caller>>

\* a placement handler taking the admission slot before it validates
BodyReadAcquiring(i) ==
  /\ req[i].pc = "body"
  /\ req' = [req EXCEPT ![i] =
       CASE req[i].in.body = "valid" -> [req[i] EXCEPT !.pc = "validated"]
         [] req[i].in.body = "invalid" ->
              Respond(req[i], ValidationErrorResponse)
         [] OTHER -> Respond(req[i], InvalidJsonBodyResponse)]
  /\ lastExecution' =
       IF req[i].in.route = "/crypto/place" /\ req[i].in.body # "valid"
       THEN tryAcquire(lastExecution,
                       LimiterKey(req[i].in.accountId, req[i].in.userId), now).map
       ELSE lastExecution
  /\ UNCHANGED <<now, error, shape, response, carrier, lookupName,
                 headerValue, upstream, unwrapped, sharedSecret, provided, order,
                 caller>>

\* parseJsonBody letting a body that fails the schema through
BodyReadLenient(i) ==
  /\ req[i].pc = "body"
  /\ req' = [req EXCEPT ![i] =
       IF req[i].in.body \in {"valid", "invalid"} THEN [req[i] EXCEPT !.pc = "validated"]
       ELSE Respond(req[i], InvalidJsonBodyResponse)]
  /\ UNCHANGED <<now, lastExecution, error, shape, response, carrier, lookupName,
               headerValue, upstream, unwrapped,
                 sharedSecret, provided, order, caller>>

\* parseJsonBody resumes: c.req.json() and schema.parse()
BodyRead(i) ==
  /\ req[i].pc = "body"
  /\ req' = [req EXCEPT ![i] =
       CASE req[i].in.body = "valid" -> [req[i] EXCEPT !.pc = "validated"]
         [] req[i].in.body = "invalid" ->
              Respond(req[i], ValidationErrorResponse)
         [] OTHER -> Respond(req[i], InvalidJsonBodyResponse)]
  /\ UNCHANGED <<now, lastExecution, error, shape, response, carrier, lookupName,
               headerValue, upstream, unwrapped,
                 sharedSecret, provided, order, caller>>

\* /crypto/place resumes after parseJsonBody: tryAcquire, then either the 429
\* or the upstream call, in one run of the event loop; Date.now() reads t
Place(i, t) ==
  /\ req[i].pc = "validated"
  /\ t >= now
  /\ now' = t
  /\ req[i].in.route = "/crypto/place"
  /\ LET limiterKey == LimiterKey(req[i].in.accountId, req[i].in.userId)
         a == tryAcquire(lastExecution, limiterKey, t)
         q == [req[i] EXCEPT !.acquire =
                 [called |-> TRUE, at |-> t, allowed |-> a.result.allowed,
                  retryAfterMs |-> a.result.retryAfterMs]]
     IN /\ lastExecution' = a.map
        /\ req' = [req EXCEPT ![i] =
             IF ~a.result.allowed
             THEN Respond(q, RateLimitedResponse(NewContext, a.result.retryAfterMs))
             ELSE CallUpstream(q)]
  /\ UNCHANGED <<error, shape, response, carrier, lookupName, headerValue, upstream,
               unwrapped,
                 sharedSecret, provided, order, caller>>

\* every other POST handler resumes after parseJsonBody: the upstream call
Forward(i) ==
  /\ req[i].pc = "validated"
  /\ req[i].in.route # "/crypto/place"
  /\ req' = [req EXCEPT ![i] = CallUpstream(req[i])]
  /\ UNCHANGED <<now, lastExecution, error, shape, response, carrier, lookupName,
               headerValue, upstream, unwrapped,
                 sharedSecret, provided, order, caller>>

\* the awaited upstream call resolves
UpstreamResolve(i, result) ==
  /\ req[i].pc = "upstream"
  /\ req' = [req EXCEPT ![i] =
       Respond([req[i] EXCEPT !.outcome = "resolved"], SuccessResponses[result])]
  /\ UNCHANGED <<now, lastExecution, error, shape, response, carrier, lookupName,
               headerValue, upstream, unwrapped,
                 sharedSecret, provided, order, caller>>

\* a catch block that gives the admission slot back
UpstreamRejectReleasing(i, err) ==
  /\ req[i].pc = "upstream"
  /\ req' = [req EXCEPT ![i] =
       Respond([req[i] EXCEPT !.outcome = "rejected"], FailureResponses[err])]
  /\ lastExecution' =
       IF req[i].in.route = "/crypto/place"
       THEN [lastExecution EXCEPT
               ![LimiterKey(req[i].in.accountId, req[i].in.userId)] = Undef]
       ELSE lastExecution
  /\ UNCHANGED <<now, error, shape, response, carrier, lookupName,
                 headerValue, upstream, unwrapped, sharedSecret, provided, order, caller>>

\* a handler that calls the upstream client once more after a failure
UpstreamRejectRetry(i, err) ==
  /\ req[i].pc = "upstream"
  /\ req' = [req EXCEPT ![i] =
       IF req[i].calls < 2 THEN CallUpstream(req[i])
       ELSE Respond([req[i] EXCEPT !.outcome = "rejected"],
                    FailureResponses[err])]
  /\ UNCHANGED <<now, lastExecution, error, shape, response, carrier, lookupName,
               headerValue, upstream, unwrapped,
                 sharedSecret, provided, order, caller>>

\* the awaited upstream call rejects: catch (error) { handleSnaptradeError }
UpstreamReject(i, err) ==
  /\ req[i].pc = "upstream"
  /\ req' = [req EXCEPT ![i] =
       Respond([req[i] EXCEPT !.outcome = "rejected"], FailureResponses[err])]
  /\ UNCHANGED <<now, lastExecution, error, shape, response, carrier, lookupName,
               headerValue, upstream, unwrapped,
                 sharedSecret, provided, order, caller>>

Next ==
  \/ \E i \in Requests, input \in RequestInputs : Receive(i, input)
  \/ \E i \in Requests : BodyRead(i)
  \/ \E i \in Requests, t \in TimePoints : Place(i, t)
  \/ \E i \in Requests : Forward(i)
  \/ \E i \in Requests, result \in UpstreamResults : UpstreamResolve(i, result)
  \/ \E i \in Requests, err \in UpstreamFailures : UpstreamReject(i, err)

Spec == Init /\ [][Next]_vars

(***************************************************************************)
(* The shared-secret middleware in front of the handlers (SpecAuth)        *)
(***************************************************************************)
\* the routes under app.use("/orders/*") and app.use("/equity/*")
GuardedRoutes == {"/orders/detail", "/equity/impact", "/equity/place"}

\* env.COINAGE_TS_SHARED_SECRET: unset, empty, or a secret
Secrets == {Undef, Str(<<>>), S1("bridge-secret")}

\* c.req.header("X-Coinage-TS-Secret"): absent, empty, the secret, another
ProvidedSecrets == {Undef, Str(<<>>), S1("bridge-secret"), S1("wrong")}

\* the 401 of the middleware
UnauthorizedResponse(c) ==
  Json(c, Obj([error |-> S1("unauthorized"),
               message |-> S1("Missing or invalid shared secret.")]), Num(401))

UnauthorizedErrorResponse == UnauthorizedResponse(NewContext)

\* the middleware letting any request with the header through
sharedSecretGuardAnyHeader(route, secret, prov) ==
  IF route \notin GuardedRoutes THEN TRUE
  ELSE IF ~Truthy(secret) THEN TRUE
  ELSE prov # Undef

\* the middleware calls next(): the route has none, no secret is set, or the
\* header equals the secret
sharedSecretGuard(route, secret, prov) ==
  IF route \notin GuardedRoutes THEN TRUE
  ELSE IF ~Truthy(secret) THEN TRUE
  ELSE prov = secret

\* A request arrives with its X-Coinage-TS-Secret header: the middleware of
\* its route, if any, then the handler as in Receive
Arrive(i, input, prov) ==
  /\ req[i].pc = "idle"
  /\ provided' = [provided EXCEPT ![i] = prov]
  /\ LET q == [req[i] EXCEPT !.in = input]
     IN req' = [req EXCEPT ![i] =
          IF sharedSecretGuard(input.route, sharedSecret, prov)
          THEN HandlerEntry(q)
          ELSE Respond(q, UnauthorizedErrorResponse)]
  /\ UNCHANGED <<now, lastExecution, error, shape, response, carrier, lookupName,
                 headerValue, upstream, unwrapped, sharedSecret, order, caller>>

InitAuth ==
  /\ now = 0
  /\ lastExecution = [k \in LimiterKeys |-> Undef]
  /\ req = [i \in Requests |-> IdleRequest]
  /\ sharedSecret \in Secrets
  /\ provided = [i \in Requests |-> Undef]
  /\ order = NoOrder
  /\ caller = NoCaller
  /\ error = Undef
  /\ shape = "none"
  /\ response = NoResponse
  /\ HeadersIdle
  /\ UnwrapIdle

\* one request, from its arrival to its response
NextAuth ==
  \/ \E input \in RequestInputs, prov \in ProvidedSecrets : Arrive(1, input, prov)
  \/ BodyRead(1)
  \/ \E t \in TimePoints : Place(1, t)
  \/ Forward(1)
  \/ \E result \in UpstreamResults : UpstreamResolve(1, result)
  \/ \E err \in UpstreamFailures : UpstreamReject(1, err)

SpecAuth == InitAuth /\ [][NextAuth]_vars

(***************************************************************************)
(* Order payloads: the schemas, the forwarded bodies, and the handlers on  *)
(* one payload (SpecOrders)                                                *)
(***************************************************************************)
\* tokens that are a run of decimal digits
DigitRuns == {"1", "2", "5", "45000"}

\* /^[0-9]+(\.[0-9]+)?$/
IsDecimalString(s) ==
  \/ Len(s) = 1 /\ s[1] \in DigitRuns
  \/ Len(s) = 3 /\ s[1] \in DigitRuns /\ s[2] = "." /\ s[3] \in DigitRuns

\* tokens that have the form of a UUID: the account ids and an instrument id
UuidTokens == AccountIds \cup {"usym-1"}

IsUuid(s) == Len(s) = 1 /\ s[1] \in UuidTokens

\* tokens that are an ISO datetime with offset
DatetimeTokens == {"2025-01-01T00:00:00Z"}

IsDatetime(s) == Len(s) = 1 /\ s[1] \in DatetimeTokens

\* one issue of a ZodError; fatal: the parser returned INVALID, so the
\* enclosing object's parse is aborted and its refinements do not run
Issue(path, message, fatal) == [path |-> path, message |-> message, fatal |-> fatal]

\* the invalid_type issue
InvalidType(path, v, expected) ==
  <<Issue(path, IF v.t = "undef" THEN <<"Required">>
                ELSE <<"Expected", expected>>, TRUE)>>

\* z.string() with one check
zString(path, v, ok, message) ==
  IF v.t # "str" THEN InvalidType(path, v, "string")
  ELSE IF ok THEN <<>> ELSE <<Issue(path, message, FALSE)>>

\* z.enum(values)
zEnum(path, v, values) ==
  IF v.t # "str" THEN InvalidType(path, v, "string")
  ELSE IF Len(v.v) = 1 /\ v.v[1] \in values THEN <<>>
  ELSE <<Issue(path, <<"Invalid", "enum", "value">>, TRUE)>>

\* z.boolean()
zBoolean(path, v) == IF v.t = "bool" THEN <<>> ELSE InvalidType(path, v, "boolean")

\* z.number().finite() with a lower bound (strict or not)
zNumber(path, v, ok) ==
  IF v.t # "num" THEN InvalidType(path, v, "number")
  ELSE IF ok THEN <<>> ELSE <<Issue(path, <<"Number", "too", "small">>, FALSE)>>

\* z.union([number, decimal string]): the first option without issues wins,
\* else the first one that only failed a check, else invalid_union
zNumberOrDecimal(path, v, ok) ==
  IF v.t = "num" THEN zNumber(path, v, ok)
  ELSE IF v.t = "str" THEN zString(path, v, IsDecimalString(v.v), <<"Invalid">>)
  ELSE <<Issue(path, <<"Invalid", "input">>, TRUE)>>

\* .optional()
zOptional(v, issues) == IF v.t = "undef" THEN <<>> ELSE issues

Aborted(issues) == \E i \in DOMAIN issues : issues[i].fatal

\* error.flatten(): the messages by first path element
flatten(issues) ==
  LET paths == {issues[i].path : i \in DOMAIN issues}
      At(p) == LET Under(x) == x.path = p
                   sel == SelectSeq(issues, Under)
               IN Arr([i \in 1..Len(sel) |-> Str(sel[i].message)])
  IN Obj([formErrors |-> At(""),
          fieldErrors |-> Obj([p \in paths \ {""} |-> At(p)])])

OrderTypes ==
  {"MARKET", "LIMIT", "STOP_LOSS_MARKET", "STOP_LOSS_LIMIT",
   "TAKE_PROFIT_MARKET", "TAKE_PROFIT_LIMIT"}

\* orderSchema's z.object on the body raw
orderSchemaObject(raw) ==
  IF raw.t # "obj" THEN InvalidType("", raw, "object")
  ELSE LET f(k) == Field(raw, k)
           instrument ==
             IF f("instrument").t # "obj"
             THEN InvalidType("instrument", f("instrument"), "object")
             ELSE zString("instrument", Field(f("instrument"), "symbol"),
                          Len(Field(f("instrument"), "symbol").v) >= 1, <<"too", "short">>)
                  \o (IF Field(f("instrument"), "type") = S1("CRYPTOCURRENCY_PAIR")
                      THEN <<>>
                      ELSE <<Issue("instrument", <<"Invalid", "literal", "value">>, TRUE)>>)
       IN zString("accountId", f("accountId"), IsUuid(f("accountId").v), <<"Invalid", "uuid">>)
          \o zString("userId", f("userId"), Len(f("userId").v) >= 1, <<"too", "short">>)
          \o zString("userSecret", f("userSecret"), Len(f("userSecret").v) >= 1, <<"too", "short">>)
          \o instrument
          \o zEnum("side", f("side"), {"BUY", "SELL"})
          \o zEnum("type", f("type"), OrderTypes)
          \o zEnum("time_in_force", f("time_in_force"), {"GTC", "FOK", "IOC", "GTD"})
          \o zString("amount", f("amount"), Len(f("amount").v) >= 1, <<"too", "short">>)
          \o (IF f("amount").t = "str" /\ ~IsDecimalString(f("amount").v)
              THEN <<Issue("amount", <<"amount", "must", "be", "a", "decimal", "string">>,
                           FALSE)>>
              ELSE <<>>)
          \o zOptional(f("limit_price"),
               zString("limit_price", f("limit_price"), IsDecimalString(f("limit_price").v),
                       <<"limit_price", "must", "be", "a", "decimal", "string">>))
          \o zOptional(f("stop_price"),
               zString("stop_price", f("stop_price"), IsDecimalString(f("stop_price").v),
                       <<"stop_price", "must", "be", "a", "decimal", "string">>))
          \o zOptional(f("post_only"), zBoolean("post_only", f("post_only")))
          \o zOptional(f("expiration_date"),
               zString("expiration_date", f("expiration_date"),
                       IsDatetime(f("expiration_date").v), <<"Invalid", "datetime">>))

\* a superRefine asking a limit price of plain LIMIT orders only
orderSchemaRefinePlainLimit(value) ==
  LET type == Field(value, "type").v[1]
  IN (IF type = "LIMIT" /\ ~Truthy(Field(value, "limit_price"))
      THEN <<Issue("limit_price",
                   <<"limit_price", "is", "required", "for", "LIMIT", "and",
                     "*_LIMIT", "orders">>, FALSE)>>
      ELSE <<>>)
     \o (IF type \in {"STOP_LOSS_MARKET", "STOP_LOSS_LIMIT",
                      "TAKE_PROFIT_MARKET", "TAKE_PROFIT_LIMIT"}
            /\ ~Truthy(Field(value, "stop_price"))
         THEN <<Issue("stop_price",
                      <<"stop_price", "is", "required", "for", "STOP_*", "and",
                        "TAKE_PROFIT_*", "orders">>, FALSE)>>
         ELSE <<>>)
     \o (IF Field(value, "time_in_force") = S1("GTD")
            /\ ~Truthy(Field(value, "expiration_date"))
         THEN <<Issue("expiration_date",
                      <<"expiration_date", "is", "required", "when",
                        "time_in_force=GTD">>, FALSE)>>
         ELSE <<>>)

\* orderSchema's superRefine on the parsed value
orderSchemaRefine(value) ==
  LET type == Field(value, "type").v[1]
  IN (IF type \in {"LIMIT", "STOP_LOSS_LIMIT", "TAKE_PROFIT_LIMIT"}
         /\ ~Truthy(Field(value, "limit_price"))
      THEN <<Issue("limit_price",
                   <<"limit_price", "is", "required", "for", "LIMIT", "and",
                     "*_LIMIT", "orders">>, FALSE)>>
      ELSE <<>>)
     \o (IF type \in {"STOP_LOSS_MARKET", "STOP_LOSS_LIMIT",
                      "TAKE_PROFIT_MARKET", "TAKE_PROFIT_LIMIT"}
            /\ ~Truthy(Field(value, "stop_price"))
         THEN <<Issue("stop_price",
                      <<"stop_price", "is", "required", "for", "STOP_*", "and",
                        "TAKE_PROFIT_*", "orders">>, FALSE)>>
         ELSE <<>>)
     \o (IF Field(value, "post_only") # Undef /\ type # "LIMIT"
         THEN <<Issue("post_only",
                      <<"post_only", "is", "only", "valid", "for", "LIMIT",
                        "orders">>, FALSE)>>
         ELSE <<>>)
     \o (IF Field(value, "time_in_force") = S1("GTD")
            /\ ~Truthy(Field(value, "expiration_date"))
         THEN <<Issue("expiration_date",
                      <<"expiration_date", "is", "required", "when",
                        "time_in_force=GTD">>, FALSE)>>
         ELSE <<>>)

\* orderSchema.parse(raw): the issues of the ZodError, none when it returns
orderSchema(raw) ==
  LET base == orderSchemaObject(raw)
  IN IF Aborted(base) THEN base ELSE base \o orderSchemaRefine(raw)

\* buildOrderRequest(payload) of crypto.ts 153-165: optional fields spread in
\* only when defined, expiration_date under the name expiration_time
buildOrderRequest(payload) ==
  LET always == {"instrument", "side", "type", "time_in_force", "amount"}
      optional == {k \in {"limit_price", "stop_price", "post_only"} :
                     Field(payload, k) # Undef}
      renamed == IF Field(payload, "expiration_date") # Undef
                 THEN {"expiration_time"} ELSE {}
  IN Obj([k \in always \cup optional \cup renamed |->
            IF k = "expiration_time" THEN Field(payload, "expiration_date")
            ELSE Field(payload, k)])

\* buildOrderRequest(payload) of crypto.ts 410-422: every field under its own
\* name, defined or not
buildOrderRequestUnrenamed(payload) ==
  Obj([k \in {"instrument", "side", "type", "time_in_force", "amount",
              "limit_price", "stop_price", "post_only", "expiration_date"} |->
         Field(payload, k)])

\* the two definitions of buildOrderRequest in crypto.ts
BuildVersions == {"spread", "unrenamed"}

BuildOrder(version, payload) ==
  IF version = "spread" THEN buildOrderRequest(payload)
  ELSE buildOrderRequestUnrenamed(payload)

\* the argument of previewCryptoOrder / placeCryptoOrder
CryptoRequest(version, payload) ==
  Obj([accountId |-> Field(payload, "accountId"),
       userId |-> Field(payload, "userId"),
       userSecret |-> Field(payload, "userSecret"),
       requestBody |-> BuildOrder(version, payload)])

\* an equityOrderSchema whose sizing test is truthiness
equityOrderRefineTruthyUnits(value) ==
  LET hasSymbol == Truthy(Field(value, "symbol"))
      hasUniversal == Truthy(Field(value, "universalSymbolId"))
      hasUnits == Truthy(Field(value, "units"))
      hasNotional == Field(value, "notionalValue") # Undef
      type == Field(value, "orderType").v[1]
  IN (IF hasSymbol = hasUniversal
      THEN <<Issue("symbol", <<"Provide", "exactly", "one", "of", "symbol", "or",
                               "universalSymbolId">>, FALSE)>> ELSE <<>>)
     \o (IF hasUnits = hasNotional
         THEN <<Issue("units", <<"Provide", "exactly", "one", "of", "units", "or",
                                 "notionalValue">>, FALSE)>> ELSE <<>>)
     \o (IF type \in {"Limit", "StopLimit"} /\ Field(value, "price") = Undef
         THEN <<Issue("price", <<"price", "is", "required", "for", "Limit", "and",
                                 "StopLimit", "orders">>, FALSE)>> ELSE <<>>)
     \o (IF type \in {"Stop", "StopLimit"} /\ Field(value, "stop") = Undef
         THEN <<Issue("stop", <<"stop", "is", "required", "for", "Stop", "and",
                                "StopLimit", "orders">>, FALSE)>> ELSE <<>>)
     \o (IF hasNotional /\ ~(type = "Market" /\ Field(value, "timeInForce") = S1("Day"))
         THEN <<Issue("notionalValue", <<"notionalValue", "requires",
                                         "orderType=Market", "and", "timeInForce=Day">>,
                      FALSE)>> ELSE <<>>)

\* equityOrderSchema's superRefine on the parsed value
equityOrderRefine(value) ==
  LET hasSymbol == Truthy(Field(value, "symbol"))
      hasUniversal == Truthy(Field(value, "universalSymbolId"))
      hasUnits == Field(value, "units") # Undef
      hasNotional == Field(value, "notionalValue") # Undef
      type == Field(value, "orderType").v[1]
  IN (IF hasSymbol = hasUniversal
      THEN <<Issue("symbol", <<"Provide", "exactly", "one", "of", "symbol", "or",
                               "universalSymbolId">>, FALSE)>> ELSE <<>>)
     \o (IF hasUnits = hasNotional
         THEN <<Issue("units", <<"Provide", "exactly", "one", "of", "units", "or",
                                 "notionalValue">>, FALSE)>> ELSE <<>>)
     \o (IF type \in {"Limit", "StopLimit"} /\ Field(value, "price") = Undef
         THEN <<Issue("price", <<"price", "is", "required", "for", "Limit", "and",
                                 "StopLimit", "orders">>, FALSE)>> ELSE <<>>)
     \o (IF type \in {"Stop", "StopLimit"} /\ Field(value, "stop") = Undef
         THEN <<Issue("stop", <<"stop", "is", "required", "for", "Stop", "and",
                                "StopLimit", "orders">>, FALSE)>> ELSE <<>>)
     \o (IF hasNotional /\ ~(type = "Market" /\ Field(value, "timeInForce") = S1("Day"))
         THEN <<Issue("notionalValue", <<"notionalValue", "requires",
                                         "orderType=Market", "and", "timeInForce=Day">>,
                      FALSE)>> ELSE <<>>)

\* equityOrderSchema's z.object on the body raw
equityOrderObject(raw) ==
  IF raw.t # "obj" THEN InvalidType("", raw, "object")
  ELSE LET f(k) == Field(raw, k)
       IN zString("accountId", f("accountId"), IsUuid(f("accountId").v), <<"Invalid", "uuid">>)
          \o zString("userId", f("userId"), Len(f("userId").v) >= 1, <<"too", "short">>)
          \o zString("userSecret", f("userSecret"), Len(f("userSecret").v) >= 1, <<"too", "short">>)
          \o zEnum("action", f("action"), {"BUY", "SELL"})
          \o zEnum("orderType", f("orderType"), {"Market", "Limit", "Stop", "StopLimit"})
          \o zEnum("timeInForce", f("timeInForce"), {"Day", "GTC", "FOK", "IOC"})
          \o zOptional(f("tradingSession"),
               zEnum("tradingSession", f("tradingSession"), {"REGULAR", "EXTENDED"}))
          \o zOptional(f("universalSymbolId"),
               zString("universalSymbolId", f("universalSymbolId"),
                       IsUuid(f("universalSymbolId").v), <<"Invalid", "uuid">>))
          \o zOptional(f("symbol"),
               zString("symbol", f("symbol"), Len(f("symbol").v) >= 1, <<"too", "short">>))
          \o zOptional(f("units"), zNumber("units", f("units"), f("units").v >= 0))
          \o zOptional(f("notionalValue"),
               zNumberOrDecimal("notionalValue", f("notionalValue"), f("notionalValue").v >= 0))
          \o zOptional(f("price"), zNumberOrDecimal("price", f("price"), f("price").v > 0))
          \o zOptional(f("stop"), zNumberOrDecimal("stop", f("stop"), f("stop").v > 0))
          \o zOptional(f("clientEventId"),
               zString("clientEventId", f("clientEventId"),
                       Len(f("clientEventId").v) >= 1, <<"too", "short">>))

\* equityOrderSchema.parse(raw): the issues of the ZodError, none when it returns
equityOrderSchema(raw) ==
  LET base == equityOrderObject(raw)
  IN IF Aborted(base) THEN base ELSE base \o equityOrderRefine(raw)

\* the numbers the digit runs denote
DigitRunValue == [d \in DigitRuns |->
  CASE d = "1" -> 1 [] d = "2" -> 2 [] d = "5" -> 5 [] OTHER -> 45000]

\* toNumber: Number(v) of a string of digits, v itself otherwise
toNumber(v) ==
  IF v.t = "str" /\ Len(v.v) = 1 /\ v.v[1] \in DigitRuns
  THEN Num(DigitRunValue[v.v[1]])
  ELSE v

\* buildManualTradeForm(payload)
buildManualTradeForm(payload) ==
  LET always == {"account_id", "action", "order_type", "time_in_force", "trading_session"}
      from == [account_id |-> "accountId", action |-> "action",
               order_type |-> "orderType", time_in_force |-> "timeInForce",
               trading_session |-> "tradingSession",
               universal_symbol_id |-> "universalSymbolId", symbol |-> "symbol",
               units |-> "units", notional_value |-> "notionalValue",
               price |-> "price", stop |-> "stop"]
      truthy == {k \in {"universal_symbol_id", "symbol"} : Truthy(Field(payload, from[k]))}
      defined == {k \in {"units", "notional_value", "price", "stop"} :
                    Field(payload, from[k]) # Undef}
  IN Obj([k \in always \cup truthy \cup defined |->
            IF k \in {"notional_value", "price", "stop"}
            THEN toNumber(Field(payload, from[k]))
            ELSE Field(payload, from[k])])

\* the argument of getOrderImpact / placeForceOrder
EquityRequest(route, payload) ==
  IF route = "/equity/impact"
  THEN Obj([userId |-> Field(payload, "userId"),
            userSecret |-> Field(payload, "userSecret"),
            manualTradeForm |-> buildManualTradeForm(payload)])
  ELSE Obj([userId |-> Field(payload, "userId"),
            userSecret |-> Field(payload, "userSecret"),
            manualTradeFormWithOptions |-> buildManualTradeForm(payload)])

\* a body that c.req.json() cannot parse
Unparseable == [t |-> "unparseable"]

\* the JSON object holding the defined fields of r
Present(r) == Obj([k \in {k \in DOMAIN r : r[k] # Undef} |-> r[k]])

SampleInstrument ==
  Obj([symbol |-> S1("BTC-USD"), type |-> S1("CRYPTOCURRENCY_PAIR")])

\* crypto order bodies: an account id that is a UUID, is not one, or is
\* missing; every order type and an unknown one; prices and expiry dates
\* absent, empty, well-formed, malformed or of the wrong type
CryptoPayloads ==
  {Present([accountId |-> a, userId |-> S1("user-1"), userSecret |-> S1("secret"),
            instrument |-> SampleInstrument, side |-> S1("BUY"), type |-> S1(ty),
            time_in_force |-> S1(tif), amount |-> S1("1"), limit_price |-> lp,
            stop_price |-> sp, post_only |-> po, expiration_date |-> ed]) :
     a \in {Undef, S1("acct-1"), S1("not-a-uuid")},
     ty \in OrderTypes \cup {"BOGUS"},
     tif \in {"GTC", "GTD"},
     lp \in {Undef, Str(<<>>), S1("45000"), S1("abc"), Num(1)},
     sp \in {Undef, Str(<<>>), S1("2")},
     po \in {Undef, Bool(TRUE)},
     ed \in {Undef, Str(<<>>), S1("2025-01-01T00:00:00Z")}}

CryptoBodies == {Null, Unparseable} \cup CryptoPayloads

\* equity order bodies: each identifier and each sizing absent or supplied
EquityPayloads ==
  {Present([accountId |-> a, userId |-> S1("user-1"), userSecret |-> S1("secret"),
            action |-> S1("BUY"), orderType |-> S1(ty), timeInForce |-> S1(tif),
            universalSymbolId |-> us, symbol |-> sy, units |-> un,
            notionalValue |-> nv, price |-> pr, stop |-> st]) :
     a \in {Undef, S1("acct-1")},
     ty \in {"Market", "Limit", "Stop", "StopLimit"},
     tif \in {"Day", "GTC"},
     us \in {Undef, S1("usym-1"), S1("not-a-uuid")},
     sy \in {Undef, Str(<<>>), S1("AAPL")},
     un \in {Undef, Num(0), Num(5), Num(-1)},
     nv \in {Undef, Num(0), Num(5), S1("5"), S1("abc")},
     pr \in {Undef, Num(1)},
     st \in {Undef, Num(1)}}

EquityBodies == {Null, Unparseable} \cup EquityPayloads

\* the handler answered without calling the upstream client
Answered(route, raw, acquired, r) ==
  [pc |-> "done", route |-> route, raw |-> raw, acquired |-> acquired,
   calls |-> 0, request |-> Undef, resp |-> r]

\* the handler called the upstream client with request and awaits it
Forwarded(route, raw, acquired, request) ==
  [pc |-> "upstream", route |-> route, raw |-> raw, acquired |-> acquired,
   calls |-> 1, request |-> request, resp |-> NoResponse]

\* parseJsonBody(c, schema) answering for the handler: the 400 of a body
\* that is not JSON or of a ZodError
ParseFailure(raw, issues) ==
  IF raw = Unparseable THEN InvalidJsonBodyResponse
  ELSE validationError(NewContext, flatten(issues))

\* POST /crypto/preview or /crypto/place with the body raw, up to its
\* response or its upstream call; version: the buildOrderRequest at hand
SubmitCryptoOrder(route, raw, version) ==
  /\ order.pc = "idle"
  /\ LET issues == IF raw = Unparseable THEN <<>> ELSE orderSchema(raw)
         limiterKey == LimiterKey(Field(raw, "accountId").v[1], Field(raw, "userId").v[1])
         a == tryAcquire(lastExecution, limiterKey, now)
     IN IF raw = Unparseable \/ issues # <<>>
        THEN /\ order' = Answered(route, raw, FALSE, ParseFailure(raw, issues))
             /\ UNCHANGED lastExecution
        ELSE IF route = "/crypto/place"
        THEN /\ lastExecution' = a.map
             /\ order' =
                  IF ~a.result.allowed
                  THEN Answered(route, raw, TRUE,
                                RateLimitedResponse(NewContext, a.result.retryAfterMs))
                  ELSE Forwarded(route, raw, TRUE, CryptoRequest(version, raw))
        ELSE /\ order' = Forwarded(route, raw, FALSE, CryptoRequest(version, raw))
             /\ UNCHANGED lastExecution
  /\ UNCHANGED <<now, req, error, shape, response, carrier, lookupName, headerValue,
                 upstream, unwrapped, sharedSecret, provided, caller>>

\* POST /equity/impact or /equity/place with the body raw
SubmitEquityOrder(route, raw) ==
  /\ order.pc = "idle"
  /\ LET issues == IF raw = Unparseable THEN <<>> ELSE equityOrderSchema(raw)
     IN order' =
          IF raw = Unparseable \/ issues # <<>>
          THEN Answered(route, raw, FALSE, ParseFailure(raw, issues))
          ELSE Forwarded(route, raw, FALSE, EquityRequest(route, raw))
  /\ UNCHANGED <<now, lastExecution, req, error, shape, response, carrier, lookupName,
                 headerValue, upstream, unwrapped, sharedSecret, provided, caller>>

\* the awaited call resolves: the success tail
OrderResolve(result) ==
  /\ order.pc = "upstream"
  /\ order' = [order EXCEPT !.pc = "done", !.resp = SuccessResponses[result]]
  /\ UNCHANGED <<now, lastExecution, req, error, shape, response, carrier, lookupName,
                 headerValue, upstream, unwrapped, sharedSecret, provided, caller>>

\* the awaited call rejects: the catch block
OrderReject(err) ==
  /\ order.pc = "upstream"
  /\ order' = [order EXCEPT !.pc = "done", !.resp = FailureResponses[err]]
  /\ UNCHANGED <<now, lastExecution, req, error, shape, response, carrier, lookupName,
                 headerValue, upstream, unwrapped, sharedSecret, provided, caller>>

\* one order body, from its arrival to its response
NextOrders ==
  \/ /\ order.pc = "idle"
     /\ \E route \in {"/crypto/preview", "/crypto/place"}, raw \in CryptoBodies,
           version \in BuildVersions : SubmitCryptoOrder(route, raw, version)
  \/ /\ order.pc = "idle"
     /\ \E route \in {"/equity/impact", "/equity/place"}, raw \in EquityBodies :
           SubmitEquityOrder(route, raw)
  \/ \E result \in UpstreamResults : OrderResolve(result)
  \/ \E err \in UpstreamFailures : OrderReject(err)

SpecOrders == Init /\ [][NextOrders]_vars

(***************************************************************************)
(* The limiter under a caller that retries (SpecRetry)                     *)
(***************************************************************************)
\* the key the caller uses
RetryKey == LimiterKey("acct-1", "user-1")

\* the clock is read up to one interval after the latest first grant
Horizon == MaxTime + minIntervalMs

\* the instants at which the caller reads Date.now(): the quarters of the
\* interval and the millisecond before each
RetryTimes == {t \in 0..Horizon : t % 250 \in {0, 249}}

\* time passes: Date.now() will read t
Tick(t) ==
  /\ t > now
  /\ now' = t
  /\ UNCHANGED <<lastExecution, req, error, shape, response, carrier, lookupName,
                 headerValue, upstream, unwrapped, sharedSecret, provided, order,
                 caller>>

\* the caller calls tryAcquire(RetryKey); it stops once it has been granted
\* twice, and makes at most MaxDenied attempts that are denied
Attempt ==
  /\ caller.grants < 2
  /\ caller.grants = 0 => now <= MaxTime
  /\ LET a == tryAcquire(lastExecution, RetryKey, now)
     IN /\ a.result.allowed \/ caller.denied < MaxDenied
        /\ lastExecution' = a.map
        /\ caller' =
             IF ~a.result.allowed THEN [caller EXCEPT !.denied = @ + 1]
             ELSE IF caller.grants = 0 THEN [caller EXCEPT !.grants = 1, !.t0 = now]
             ELSE [caller EXCEPT !.grants = 2, !.t1 = now]
  /\ UNCHANGED <<now, req, error, shape, response, carrier, lookupName,
                 headerValue, upstream, unwrapped, sharedSecret, provided, order>>

NextRetry ==
  \/ \E t \in RetryTimes : Tick(t)
  \/ Attempt

\* the clock advances and the caller keeps calling
SpecRetry ==
  /\ Init
  /\ [][NextRetry]_vars
  /\ WF_vars(\E t \in RetryTimes : Tick(t))
  /\ WF_vars(Attempt)

(***************************************************************************)
(* readHeaderValue on its own: the carriers and the names looked up        *)
(***************************************************************************)
\* the header names the bridge reads, as it writes them
HeaderNames ==
  {"x-request-id", "x-ratelimit-limit", "x-ratelimit-remaining", "x-ratelimit-reset",
   "retry-after"}

\* the spellings of a header name: lower case, canonical, upper case
Spell(name, spelling) ==
  CASE spelling = "lower" -> name
    [] name = "x-request-id" ->
         IF spelling = "canonical" THEN "X-Request-ID" ELSE "X-REQUEST-ID"
    [] name = "x-ratelimit-limit" ->
         IF spelling = "canonical" THEN "X-RateLimit-Limit" ELSE "X-RATELIMIT-LIMIT"
    [] name = "x-ratelimit-remaining" ->
         IF spelling = "canonical" THEN "X-RateLimit-Remaining" ELSE "X-RATELIMIT-REMAINING"
    [] name = "x-ratelimit-reset" ->
         IF spelling = "canonical" THEN "X-RateLimit-Reset" ELSE "X-RATELIMIT-RESET"
    [] name = "retry-after" ->
         IF spelling = "canonical" THEN "Retry-After" ELSE "RETRY-AFTER"
    [] OTHER -> name

Spellings == {"lower", "canonical", "upper"}

\* entries with every key in one spelling
Respell(es, spelling) ==
  [i \in 1..Len(es) |-> <<Spell(ToLowerCase(es[i][1]), spelling), es[i][2]>>]

\* The carriers of one set of name/value data:
\*   get      an object with a lookup method (headers.get), matching names
\*            in any letter-casing
\*   forEach  an object with an enumeration method only
\*   fetch    a Fetch Headers object: get and forEach
\*   plain    a plain mapping
CarrierShapes == {"get", "forEach", "fetch", "plain"}

MkCarrier(carrierShape, spelling, es) ==
  CASE carrierShape = "get" -> Hdr("ci", "none", FALSE, Respell(es, spelling))
    [] carrierShape = "forEach" -> Hdr("none", "iter", FALSE, Respell(es, spelling))
    [] carrierShape = "fetch" -> Hdr("ci", "iter", FALSE, Respell(es, spelling))
    [] OTHER -> Hdr("none", "none", TRUE, Respell(es, spelling))

\* carriers whose method throws when called, and a lookup function that
\* answers the lower-case name only (the test doubles' `get`)
ThrowingGet(es) == Hdr("throws", "none", FALSE, es)
ThrowingForEach(es) == Hdr("none", "throws", FALSE, es)
ThrowingForEachAfterGet(es) == Hdr("ci", "throws", FALSE, es)
LowerCaseGet(es) == Hdr("cs", "none", FALSE, Respell(es, "lower"))

\* the longest list of entries a carrier of SpecHeaders holds
MaxEntries == 2

\* the names and the values the carriers of SpecHeaders hold
StoredNames == {"x-request-id", "x-ratelimit-limit", "retry-after"}
StoredValues == {S1("req-1"), Str(<<>>), Num(0), Null, Undef}

\* name/value data: up to MaxEntries entries under different names
HeaderData ==
  {es \in UNION {[1..n -> StoredNames \X StoredValues] : n \in 0..MaxEntries} :
     \A i, j \in 1..Len(es) : i # j => es[i][1] # es[j][1]}

\* what readHeaderValue can be handed as `headers`
ReadCarriers ==
  {MkCarrier(cs, sp, es) : cs \in CarrierShapes, sp \in Spellings, es \in HeaderData}
    \cup {ThrowingGet(es) : es \in HeaderData}
    \cup {ThrowingForEach(es) : es \in HeaderData}
    \cup {ThrowingForEachAfterGet(es) : es \in HeaderData}
    \cup {LowerCaseGet(es) : es \in HeaderData}
    \cup {Undef, Null, S1("x-request-id"), Num(1)}

\* ... and as `headerName`
LookupNames ==
  {Spell(n, sp) : n \in {"x-request-id", "retry-after"}, sp \in Spellings}
    \cup {"does-not-exist"}

InitHeaders ==
  /\ ServerInit
  /\ error = Undef
  /\ shape = "none"
  /\ response = NoResponse
  /\ UnwrapIdle
  /\ carrier \in ReadCarriers
  /\ lookupName \in LookupNames
  /\ headerValue = NotRead

\* readHeaderValue(headers, headerName) is called and returns
ReadHeader ==
  /\ headerValue = NotRead
  /\ lookupName # ""
  /\ headerValue' = readHeaderValue(carrier, lookupName)
  /\ UNCHANGED <<now, lastExecution, req, error, shape, response, carrier, lookupName,
                 upstream, unwrapped,
                 sharedSecret, provided, order, caller>>

NextHeaders == ReadHeader

SpecHeaders == InitHeaders /\ [][NextHeaders]_vars

(***************************************************************************)
(* handleSnaptradeError on its own: the caught values                      *)
(***************************************************************************)
\* marks a key that the object does not have
Missing == [t |-> "missing"]

\* the object holding the keys of f whose value is not Missing
MkObj(f) == Obj([k \in {k \in DOMAIN f : f[k] # Missing} |-> f[k]])

ObjectPayload ==
  Obj([code |-> S1("1119"), detail |-> S1("Order rejected by brokerage"),
       raw_error |-> Obj([body |-> Obj([error_code |-> S1("SOME_BROKER_CODE")])])])

ArrayPayload == Arr(<<Obj([code |-> S1("1119")])>>)

JsonStringPayload ==
  Str(<<" ", "{", "\"code\"", ":", "\"RATE_LIMITED\"", ",", "\"detail\"", ":", "429", "}", "\n">>)

TextPayload == Str(<<"upstream", " ", "timeout">>)

HeaderCarriers ==
  {PlainHeaders(<<<<"X-Request-ID", S1("req-plain")>>, <<"x-ratelimit-limit", S1("60")>>,
                  <<"Retry-After", S1("3")>>>>),
   GetHeaders(<<<<"x-request-id", S1("req-get")>>, <<"x-ratelimit-remaining", Num(0)>>>>),
   FetchHeaders(<<<<"x-ratelimit-reset", S1("15")>>>>)}

NestedResponses ==
  {MkObj([status |-> st, data |-> d, headers |-> h]) :
     st \in {Missing, Num(0), Num(-1), Num(400)},
     d \in {Missing, Null, ObjectPayload, ArrayPayload, JsonStringPayload, TextPayload},
     h \in {Missing} \cup HeaderCarriers}

ErrorObjects ==
  {MkObj([message |-> m, response |-> r, status |-> st, statusCode |-> sc,
          responseBody |-> b, headers |-> h]) :
     m \in {Missing, S1("Request failed"), Num(7)},
     r \in {Missing, Undef} \cup NestedResponses,
     st \in {Missing, Num(0), Num(400), S1("400")},
     sc \in {Missing, Num(-1), Num(429)},
     b \in {Missing, Undef, ObjectPayload, TextPayload},
     h \in {Missing, PlainHeaders(<<<<"X-Request-ID", S1("req-plain")>>>>),
            GetHeaders(<<<<"retry-after", S1("5")>>>>)}}

\* the longest string payload (in tokens) among the enumerated ones
MaxPayloadLen == 4

PayloadTokens == {" ", "nbsp", "{", "}", "[", "]", ",", "429", "oops"}

\* string payloads: every token string up to MaxPayloadLen, and the samples
StringPayloads ==
  {JsonStringPayload, TextPayload}
    \cup {Str(s) : s \in UNION {[1..n -> PayloadTokens] : n \in 0..MaxPayloadLen}}

\* what the payload field of a failure can hold (Missing: no such key)
Payloads ==
  {Missing, Undef, Null, Num(0), Num(42), ObjectPayload, ArrayPayload, Obj(<<>>), Arr(<<>>)}
    \cup StringPayloads

\* the headers an upstream response carries when it carries them all
FullHeaderData ==
  <<<<"x-request-id", S1("req-1")>>, <<"x-ratelimit-limit", S1("60")>>,
    <<"x-ratelimit-remaining", Num(0)>>, <<"x-ratelimit-reset", S1("15")>>,
    <<"retry-after", S1("3")>>>>

\* ... and when it carries only those of the set names
PartialHeaderData(names) == SelectSeq(FullHeaderData, LAMBDA e : e[1] \in names)

\* header carriers of upstream responses: every selection of the five
\* headers in every carrier shape, and the carriers of SpecHeaders
UpstreamCarriers ==
  {MkCarrier(cs, sp, PartialHeaderData(names)) :
     cs \in CarrierShapes, sp \in Spellings, names \in SUBSET HeaderNames}
    \cup ReadCarriers

\* the two shapes of a classified failure: "A" nests status, payload and
\* headers under `response`, "B" holds them flat
FailureShapes == {"A", "B"}

\* a failure of the shape with a status, a payload and headers
MkFailure(failureShape, st, d, h) ==
  IF failureShape = "A"
  THEN MkObj([message |-> S1("Request failed"),
              response |-> MkObj([status |-> st, data |-> d, headers |-> h])])
  ELSE MkObj([message |-> S1("Request failed"), status |-> st, headers |-> h,
              responseBody |-> d])

\* Shape A and Shape B failures over the payloads
PayloadFailures ==
  {MkFailure(fs, Num(400), d, IF fs = "A" THEN Missing ELSE PlainHeaders(<<>>)) :
     fs \in FailureShapes, d \in Payloads}

\* Shape A and Shape B failures over the header carriers
HeaderFailures ==
  {MkFailure(fs, Num(429), ObjectPayload, h) : fs \in FailureShapes, h \in UpstreamCarriers}

\* what a `catch (error)` can receive, by family
CaughtFamilies == {"objects", "payloads", "headers", "primitives"}

CaughtValues(family) ==
  CASE family = "objects" -> ErrorObjects
    [] family = "payloads" -> PayloadFailures
    [] family = "headers" -> HeaderFailures
    [] OTHER -> {Undef, Null, S1("boom"), Num(5)}

InitNormalize ==
  /\ ServerInit
  /\ \E family \in CaughtFamilies : error \in CaughtValues(family)
  /\ shape = "none"
  /\ response = NoResponse
  /\ HeadersIdle
  /\ UnwrapIdle

\* catch (error) { return handleSnaptradeError(c, error); }
Normalize ==
  /\ shape = "none"
  /\ upstream = NoResult
  /\ shape' = Classify(error)
  /\ response' = handleSnaptradeError(NewContext, error)
  /\ UNCHANGED <<now, lastExecution, req, error, carrier, lookupName, headerValue,
               upstream, unwrapped,
                 sharedSecret, provided, order, caller>>

NextNormalize == Normalize

SpecNormalize == InitNormalize /\ [][NextNormalize]_vars

(***************************************************************************)
(* The success tail on its own: what an upstream call resolves with        *)
(***************************************************************************)
\* results that are the payload itself
BarePayloads ==
  {SamplePayload, ArrayPayload, Obj(<<>>), Null, Undef, Num(0), S1("ok"),
   Obj([headers |-> SampleHeaders]),
   Obj([payload |-> SamplePayload, headers |-> SampleHeaders])}

\* results that wrap the payload: { data, headers? }
Envelopes ==
  {MkObj([data |-> d, headers |-> h]) :
     d \in {SamplePayload, Undef},
     h \in {Missing, Undef, Null} \cup UpstreamCarriers}

\* a handler of any route, past its validation and awaiting the upstream call
AwaitingInputs ==
  {i \in RequestInputs : i.body = "valid" /\ i.accountId = "acct-1" /\ i.userId = "user-1"}

Awaiting(input) ==
  IF input.route = "/crypto/place"
  THEN CallUpstream([IdleRequest EXCEPT
                       !.in = input,
                       !.acquire = [called |-> TRUE, at |-> 0, allowed |-> TRUE,
                                    retryAfterMs |-> 0]])
  ELSE CallUpstream([IdleRequest EXCEPT !.in = input])

InitUnwrap ==
  /\ now = 0
  /\ \E input \in AwaitingInputs :
       /\ req = [i \in Requests |-> IF i = 1 THEN Awaiting(input) ELSE IdleRequest]
       /\ lastExecution =
            IF input.route = "/crypto/place"
            THEN tryAcquire([k \in LimiterKeys |-> Undef],
                            LimiterKey(input.accountId, input.userId), 0).map
            ELSE [k \in LimiterKeys |-> Undef]
  /\ error = Undef
  /\ shape = "none"
  /\ response = NoResponse
  /\ HeadersIdle
  /\ (upstream \in BarePayloads \/ upstream \in Envelopes)
  /\ unwrapped = NotUnwrapped
  /\ NoSecret

\* the awaited call resolves: unwrapSnaptradeResponse(result), then the
\* propagation of the headers, then return c.json(data)
Resolve ==
  /\ upstream # NoResult
  /\ unwrapped = NotUnwrapped
  /\ req[1].pc = "upstream"
  /\ unwrapped' = unwrapSnaptradeResponse(upstream)
  /\ LET r == SuccessResponse(NewContext, upstream)
     IN /\ response' = r
        /\ req' = [req EXCEPT ![1] = Respond([req[1] EXCEPT !.outcome = "resolved"], r)]
  /\ UNCHANGED <<now, lastExecution, error, shape, carrier, lookupName, headerValue,
                 upstream,
                 sharedSecret, provided, order, caller>>

NextUnwrap == Resolve

SpecUnwrap == InitUnwrap /\ [][NextUnwrap]_vars

(***************************************************************************)
(* Both sides of the bridge over the header carriers                       *)
(***************************************************************************)
InitBridge ==
  \/ InitUnwrap
  \/ InitNormalize /\ error \in HeaderFailures

NextBridge ==
  \/ Normalize
  \/ Resolve

SpecBridge == InitBridge /\ [][NextBridge]_vars

(***************************************************************************)
(* Properties of the limiter and of /crypto/place (Spec)                   *)
(***************************************************************************)
ReqKey(i) == LimiterKey(req[i].in.accountId, req[i].in.userId)

Called(i) == req[i].acquire.called

Allowed(i) == Called(i) /\ req[i].acquire.allowed

Denied(i) == Called(i) /\ ~req[i].acquire.allowed

Apart(i, j) == IF req[i].acquire.at >= req[j].acquire.at
               THEN req[i].acquire.at - req[j].acquire.at
               ELSE req[j].acquire.at - req[i].acquire.at

\* i and j are different requests that both called tryAcquire with one key
SameKeyCalls(i, j) == i # j /\ Called(i) /\ Called(j) /\ ReqKey(i) = ReqKey(j)

\* ... and no third request called tryAcquire with that key
OnlyCalls(i, j) ==
  /\ SameKeyCalls(i, j)
  /\ \A k \in Requests \ {i, j} : ~(Called(k) /\ ReqKey(k) = ReqKey(i))

\* C1: of two /crypto/place requests with the same accountId:userId key whose
\* tryAcquire calls are less than minIntervalMs apart, at most one is Allowed
\* and at most one reaches the upstream placeCryptoOrder call, whatever the
\* interleaving of the two handlers.
C1_AtMostOneAdmitted ==
  \A i, j \in Requests :
    (SameKeyCalls(i, j) /\ Apart(i, j) < minIntervalMs)
      => /\ ~(Allowed(i) /\ Allowed(j))
         /\ ~(req[i].calls > 0 /\ req[j].calls > 0)

C1_Witness ==
  \E i, j \in Requests :
    /\ SameKeyCalls(i, j) /\ Apart(i, j) < minIntervalMs
    /\ Allowed(i) /\ req[i].calls = 1
    /\ Denied(j) /\ req[j].calls = 0 /\ req[j].pc = "done"
    /\ req[j].acquire.at > req[i].acquire.at

\* C2: when two tryAcquire attempts are made for a key never seen before, less
\* than minIntervalMs apart, the first is Allowed and the second Denied; and
\* every Denied result has 0 < retryAfterMs <= minIntervalMs.
C2_FirstAllowedSecondDenied ==
  /\ \A i, j \in Requests :
       (OnlyCalls(i, j) /\ Apart(i, j) < minIntervalMs
          /\ req[i].acquire.at < req[j].acquire.at)
         => Allowed(i) /\ Denied(j)
  /\ \A i, j \in Requests :
       (OnlyCalls(i, j) /\ req[i].acquire.at = req[j].acquire.at)
         => (Allowed(i) /\ Denied(j)) \/ (Denied(i) /\ Allowed(j))
  /\ \A i \in Requests :
       Denied(i) => /\ req[i].acquire.retryAfterMs > 0
                    /\ req[i].acquire.retryAfterMs <= minIntervalMs

C2_Witness ==
  \E i, j \in Requests :
    /\ OnlyCalls(i, j)
    /\ req[j].acquire.at - req[i].acquire.at = minIntervalMs - 1
    /\ Allowed(i)
    /\ Denied(j) /\ req[j].acquire.retryAfterMs = 1

\* C3: two tryAcquire attempts for a key whose timestamps differ by at least
\* minIntervalMs (exactly minIntervalMs included) are both Allowed, and an
\* attempt for a key not seen before is Allowed.
C3_BothAllowedWhenApart ==
  /\ \A i, j \in Requests :
       (OnlyCalls(i, j) /\ Apart(i, j) >= minIntervalMs) => Allowed(i) /\ Allowed(j)
  /\ \A i \in Requests :
       (Called(i) /\ \A k \in Requests \ {i} : ~(Called(k) /\ ReqKey(k) = ReqKey(i)))
         => Allowed(i)

C3_Witness ==
  \E i, j \in Requests :
    /\ OnlyCalls(i, j)
    /\ req[j].acquire.at - req[i].acquire.at = minIntervalMs
    /\ Allowed(i) /\ Allowed(j)
    /\ req[i].calls = 1 /\ req[j].calls = 1

\* the decimal strings of the whole numbers from 1 up
PositiveSeconds == {Str(NumToString(n)) : n \in 1..(MaxTime + minIntervalMs)}

\* C4: two valid /crypto/place requests with the same accountId and userId
\* within the minimum interval, the upstream succeeding: the first is answered
\* 200 with the upstream payload, the second 429 with error "rate_limited" and
\* a Retry-After of at least "1", and placeCryptoOrder is invoked exactly once.
C4_SecondPlacementRateLimited ==
  \A i, j \in Requests :
    (/\ OnlyCalls(i, j) /\ Apart(i, j) < minIntervalMs
     /\ req[i].acquire.at <= req[j].acquire.at
     /\ req[i].pc = "done" /\ req[j].pc = "done"
     /\ Allowed(i) /\ req[i].outcome = "resolved")
      => /\ req[i].resp.status = Num(200)
         /\ req[i].resp.body = SamplePayload
         /\ req[j].resp.status = Num(429)
         /\ req[j].resp.body.v.error = S1("rate_limited")
         /\ req[j].resp.headers["Retry-After"] \in PositiveSeconds
         /\ req[i].calls + req[j].calls = 1

C4_Witness ==
  \E i, j \in Requests :
    /\ OnlyCalls(i, j) /\ Apart(i, j) < minIntervalMs
    /\ req[i].pc = "done" /\ req[j].pc = "done"
    /\ req[i].outcome = "resolved" /\ req[i].resp.status = Num(200)
    /\ req[j].resp.status = Num(429)
    /\ req[j].resp.headers["Retry-After"] = S1("1")

\* the request failed validation (schema violation or unparseable body)
FailedValidation(i) == req[i].pc # "idle" /\ req[i].in.body # "valid"

\* C5: a request that ends in a validation failure (400) or an admission
\* denial (429) ends there: on no route is the upstream client invoked for it.
C5_LocalFailuresNeverReachUpstream ==
  \A i \in Requests :
    /\ FailedValidation(i)
         => /\ req[i].calls = 0
            /\ req[i].outcome = "none"
            /\ req[i].pc \in {"body", "done"}
            /\ req[i].pc = "done" => req[i].resp.status = Num(400)
    /\ Denied(i)
         => /\ req[i].calls = 0
            /\ req[i].outcome = "none"
            /\ req[i].pc = "done"
            /\ req[i].resp.status = Num(429)

C5_Witness ==
  \E i, j \in Requests :
    /\ FailedValidation(i) /\ req[i].pc = "done" /\ req[i].in.route = "/orders/detail"
    /\ req[i].resp.status = Num(400) /\ req[i].calls = 0
    /\ FailedValidation(j) /\ req[j].pc = "done" /\ req[j].in.route = "/crypto/pairs"

\* the request passed validation and, on /crypto/place, admission
Admitted(i) ==
  /\ req[i].pc \in {"upstream", "done"}
  /\ req[i].in.body = "valid"
  /\ req[i].in.route = "/crypto/place" => Allowed(i)

\* C6: a request that passes validation (and admission) calls the upstream
\* client exactly once and produces exactly one response, which carries a
\* status code and a JSON body; a failed upstream call is not retried.
C6_OneCallOneResponse ==
  \A i \in Requests :
    /\ req[i].calls <= 1 /\ req[i].responses <= 1
    /\ Admitted(i) => req[i].calls = 1
    /\ (Admitted(i) /\ req[i].pc = "upstream") => req[i].responses = 0
    /\ (Admitted(i) /\ req[i].pc = "done")
         => /\ req[i].responses = 1
            /\ req[i].outcome \in {"resolved", "rejected"}
            /\ req[i].resp.status.t = "num"
            /\ req[i].resp.body.t \in {"obj", "arr"}

C6_Witness ==
  \E i \in Requests :
    /\ Admitted(i) /\ req[i].pc = "done" /\ req[i].outcome = "rejected"
    /\ req[i].calls = 1 /\ req[i].responses = 1
    /\ req[i].resp.status = Num(400)
    /\ req[i].resp.body = SampleErrorBody

(***************************************************************************)
(* Properties of handleSnaptradeError (SpecNormalize)                      *)
(***************************************************************************)
Handled == shape # "none"

PositiveNumber(v) == v.t = "num" /\ v.v > 0

IsObjectPayload(v) == v.t \in {"obj", "arr"}

\* the nested response of a Shape A failure, its status, payload and headers
NestedStatus == OptField(Field(error, "response"), "status")
NestedData == OptField(Field(error, "response"), "data")
NestedHeaders == OptField(Field(error, "response"), "headers")

\* the headers object of the failure, by shape
FailureHeaders == IF shape = "A" THEN NestedHeaders ELSE Field(error, "headers")

\* what a carrier holds under a lower-case name: the value of the first
\* entry whose key is that name in any letter-casing, Undef when none or
\* when the carrier cannot be read (its method throws)
CarriedValue(h, name) ==
  IF h.t # "hdr" \/ h.get = "throws" \/ (h.get = "none" /\ h.forEach = "throws") THEN Undef
  ELSE LET idx == {i \in 1..Len(h.entries) : ToLowerCase(h.entries[i][1]) = name}
       IN IF idx = {} THEN Undef
          ELSE h.entries[CHOOSE i \in idx : \A j \in idx : i <= j][2]

C8_BothRequestIdHeaders ==
  Handled =>
    /\ response.headers["X-SnapTrade-Request-ID"] = response.headers["X-Request-ID"]
    /\ (shape \in {"A", "B"} /\ Truthy(CarriedValue(FailureHeaders, "x-request-id")))
         => /\ response.headers["X-SnapTrade-Request-ID"]
                 = Stringify(CarriedValue(FailureHeaders, "x-request-id"))
            /\ response.headers["X-Request-ID"]
                 = Stringify(CarriedValue(FailureHeaders, "x-request-id"))

C8_Witness ==
  /\ shape = "A"
  /\ NestedHeaders.t = "hdr" /\ NestedHeaders.get = "none"
  /\ response.headers["X-SnapTrade-Request-ID"] = S1("req-plain")
  /\ response.headers["X-Request-ID"] = S1("req-plain")

\* the status the claim of C9 expects for a flat failure
FlatStatusOr502 ==
  IF PositiveNumber(Field(error, "statusCode")) THEN Field(error, "statusCode")
  ELSE IF PositiveNumber(Field(error, "status")) THEN Field(error, "status")
  ELSE Num(502)

\* C9: for Shape A and Shape B alike the response status is the nested/flat
\* status field when that is a positive number and 502 when it is absent or
\* non-positive; a classified failure is never answered with a non-positive
\* status.
C9_StatusOrBadGateway ==
  /\ shape = "A"
       => /\ response.status = (IF PositiveNumber(NestedStatus) THEN NestedStatus ELSE Num(502))
          /\ PositiveNumber(response.status)
  /\ shape = "B"
       => /\ response.status = FlatStatusOr502
          /\ PositiveNumber(response.status)

IsErrorObject == error.t = "obj"

NumericStatusField ==
  Field(error, "status").t = "num" \/ Field(error, "statusCode").t = "num"

BodyOrHeadersField == HasField(error, "responseBody") \/ HasField(error, "headers")

\* C10 as stated: Shape A if the caught value has a response field; otherwise
\* Shape B if it has a numeric status or statusCode and a responseBody or
\* headers field; otherwise Unknown; message has no influence.
C10_ClassificationIgnoresMessage ==
  Handled =>
    shape = (IF IsErrorObject /\ HasField(error, "response") THEN "A"
             ELSE IF IsErrorObject /\ NumericStatusField /\ BodyOrHeadersField THEN "B"
             ELSE "Unknown")

\* the generic response of the Unknown branch
InternalErrorResponse ==
  [status |-> Num(500),
   body |-> Obj([error |-> S1("internal_error"),
                 message |-> S1("Failed to process SnapTrade request")]),
   headers |-> NewContext]

\* C10 (amended): Shape A if the caught value is an object with a message key
\* and a response key; otherwise Shape B if it is an object whose message is a
\* string, with a numeric status or statusCode and a responseBody or headers
\* key; otherwise Unknown, answered with the generic 500.  A value matching
\* both shapes is handled as Shape A.
C10_Classification ==
  Handled =>
    LET rule == IF IsErrorObject /\ HasField(error, "message") /\ HasField(error, "response")
                THEN "A"
                ELSE IF IsErrorObject /\ Field(error, "message").t = "str"
                        /\ NumericStatusField /\ BodyOrHeadersField
                THEN "B"
                ELSE "Unknown"
    IN /\ shape = rule
       /\ rule = "Unknown" <=> response = InternalErrorResponse

C10_Witness ==
  /\ shape = "A"
  /\ Field(error, "message").t = "str"
  /\ Field(error, "statusCode") = Num(429)
  /\ HasField(error, "responseBody")
  /\ HasField(error, "response")
  /\ response.status = Num(400)

\* the payload field of the failure, by shape
FailurePayload == IF shape = "A" THEN NestedData ELSE Field(error, "responseBody")

\* the two-field fallback body
FallbackBody(detail) == Obj([code |-> S1("SNAPTRADE_ERROR"), detail |-> detail])

\* the response shows the payload p: as the body itself, as the body parsed
\* from it, or as the detail of the fallback body
ShowsPayload(p) ==
  \/ response.body = p
  \/ /\ p.t = "str"
     /\ \/ response.body = FallbackBody(p)
        \/ JSONParse(Trim(p.v)).ok /\ response.body = JSONParse(Trim(p.v)).val

\* C11: a caught value with none of the recognized shape fields is answered
\* with the generic 500 response, without any header and without anything of
\* the original value; and it is the only failure path that masks the
\* payload: a classified failure that has a payload shows it in the response.
C11_OnlyUnknownMasksPayload ==
  Handled =>
    /\ shape = "Unknown" => response = InternalErrorResponse
    /\ (shape \in {"A", "B"} /\ FailurePayload.t \notin {"undef", "null"})
         => ShowsPayload(FailurePayload)

\* the status field of the failure, by shape (statusCode before status)
UpstreamStatus ==
  IF shape = "A" THEN NestedStatus
  ELSE IF PositiveNumber(Field(error, "statusCode")) THEN Field(error, "statusCode")
  ELSE Field(error, "status")

StatusPreserved == PositiveNumber(UpstreamStatus) => response.status = UpstreamStatus

StringPayload == shape \in {"A", "B"} /\ FailurePayload.t = "str"

\* C12 as stated: a Shape A or Shape B failure whose payload is a string
\* holding valid JSON is answered with the parsed JSON value as the body and
\* with the upstream status.
C12_ValidJsonStringParsed ==
  (StringPayload /\ JSONParse(FailurePayload.v).ok)
    => /\ response.body = JSONParse(FailurePayload.v).val
       /\ StatusPreserved

\* C12 (amended): a Shape A or Shape B failure whose payload is a string
\* holding a valid JSON object or array is answered with the parsed object or
\* array as the body, not the string nor a fallback wrapping it, and with the
\* upstream status; a string holding a JSON scalar is not parsed.
C12_JsonObjectStringParsed ==
  (StringPayload /\ JSONParse(FailurePayload.v).ok)
    => /\ IsObjectPayload(JSONParse(FailurePayload.v).val)
            => response.body = JSONParse(FailurePayload.v).val
       /\ ~IsObjectPayload(JSONParse(FailurePayload.v).val)
            => response.body = FallbackBody(FailurePayload)
       /\ StatusPreserved

C12_Witness ==
  /\ shape = "B"
  /\ FailurePayload = JsonStringPayload
  /\ response.body = Obj([code |-> S1("RATE_LIMITED"), detail |-> Num(429)])
  /\ response.status = Num(400)

TrimmedParsesToObject ==
  /\ JSONParse(Trim(FailurePayload.v)).ok
  /\ IsObjectPayload(JSONParse(Trim(FailurePayload.v)).val)

NoPayloadField ==
  IF shape = "A"
  THEN ~(Field(error, "response").t = "obj" /\ HasField(Field(error, "response"), "data"))
  ELSE ~HasField(error, "responseBody")

\* C14: a Shape A or Shape B failure without any payload field is answered
\* with the fallback {code, detail} whose detail is the failure's message,
\* with the failure's status, or 502 when it has none; never with the generic
\* 500 body of the Unknown shape.
C14_NoPayloadMessageFallback ==
  (shape \in {"A", "B"} /\ NoPayloadField)
    => /\ response.body = FallbackBody(Field(error, "message"))
       /\ StatusPreserved
       /\ UpstreamStatus = Undef => response.status = Num(502)
       /\ response.status \in {UpstreamStatus, Num(502)}
       /\ response.body # InternalErrorResponse.body

C14_Witness ==
  /\ shape = "B"
  /\ ~HasField(error, "responseBody")
  /\ Field(error, "message") = S1("Request failed")
  /\ response.status = Num(400)
  /\ response.body = FallbackBody(S1("Request failed"))

(***************************************************************************)
(* Properties of readHeaderValue (SpecHeaders)                             *)
(***************************************************************************)
\* the three carrier shapes readHeaderValue supports
SupportedShapes == {"get", "forEach", "plain"}

\* the name/value data the carrier holds, keys in lower case
CarrierData == Respell(carrier.entries, "lower")

\* the carrier is one of the supported shapes over its data
SupportedCarrier ==
  /\ carrier.t = "hdr"
  /\ \E cs \in SupportedShapes, sp \in Spellings : carrier = MkCarrier(cs, sp, CarrierData)

\* C15: carriers of the three supported shapes holding the same name/value
\* data give the same readHeaderValue result, whatever the shape and whatever
\* the letter-casing of the name asked for and of the stored keys, also when
\* the stored value is a non-string, an empty string, null or undefined.
C15_SameAcrossShapesAndCasings ==
  (headerValue # NotRead /\ SupportedCarrier)
    => \A cs \in SupportedShapes, stored \in Spellings, asked \in Spellings :
         readHeaderValue(MkCarrier(cs, stored, CarrierData),
                         Spell(ToLowerCase(lookupName), asked)) = headerValue

(***************************************************************************)
(* Properties of the bridge over the header carriers (SpecBridge)          *)
(***************************************************************************)
\* the upstream call has resolved and the handler has answered
Resolved == unwrapped # NotUnwrapped

\* the result wraps its payload: { data, headers? }
IsEnvelope == upstream.t = "obj" /\ HasField(upstream, "data")

\* the headers object the bridge reads: the failure's or the result's
BridgeHeaders ==
  IF upstream = NoResult THEN FailureHeaders
  ELSE IF IsEnvelope THEN Field(upstream, "headers") ELSE Undef

\* what the carrier's lookup method answers for the name
GetAnswer(h, name) ==
  IF h.get \in {"ci", "cs"}
  THEN Coalesce(HeadersGet(h, name), HeadersGet(h, ToLowerCase(name)))
  ELSE Undef

\* reading the name calls a method of the carrier that throws: the lookup
\* method, or the enumeration method reached after a lookup without answer
MethodThrows(h, name) ==
  /\ h.t = "hdr"
  /\ \/ h.get = "throws"
     \/ h.forEach = "throws" /\ GetAnswer(h, name).t \in {"undef", "null"}

\* C16: readHeaderValue never lets an exception out: it returns undefined for
\* a null or non-object carrier and when the carrier's lookup or enumeration
\* method throws; so a throwing carrier on a classified failure or on a
\* success result never aborts the response, which has the status and the
\* payload it would have without the header.
C16_HeaderReadingNeverAborts ==
  ((upstream = NoResult /\ Handled) \/ Resolved)
    => /\ \A name \in HeaderNames, sp \in Spellings :
            (BridgeHeaders.t # "hdr" \/ MethodThrows(BridgeHeaders, Spell(name, sp)))
              => readHeaderValue(BridgeHeaders, Spell(name, sp)) = Undef
       /\ (\E name \in HeaderNames : MethodThrows(BridgeHeaders, name))
            => IF upstream = NoResult
               THEN /\ response.status = UpstreamStatus
                    /\ response.body = FailurePayload
                    /\ \A name \in HeaderNames :
                         MethodThrows(BridgeHeaders, name)
                           => \A rn \in ResponseHeaderNames :
                                ToLowerCase(rn) = name => response.headers[rn] = Undef
               ELSE /\ response.status = Num(200)
                    /\ response.body = Serialize(Field(upstream, "data"))
                    /\ req[1].pc = "done"
                    /\ req[1].resp = response

C16_Witness ==
  /\ shape = "B"
  /\ FailureHeaders.t = "hdr"
  /\ FailureHeaders.get = "throws"
  /\ Len(FailureHeaders.entries) > 0
  /\ response.status = Num(429)
  /\ response.body = ObjectPayload
  /\ response.headers = NewContext

(***************************************************************************)
(* Properties of the success tail (SpecUnwrap)                             *)
(***************************************************************************)
\* the value is one a header is made of: a non-empty string or a number
\* other than 0
PlainValue(v) == (v.t = "str" /\ v.v # <<>>) \/ (v.t = "num" /\ v.v # 0)

\* reading the name from the carrier gives what the carrier holds under it:
\* nothing when it holds nothing or cannot be read, the value as a string
\* when it is a plain value, and one of the two otherwise
ReadsAs(h, name, read) ==
  LET held == CarriedValue(h, name)
  IN IF h.t # "hdr" \/ MethodThrows(h, name) THEN read = Undef
     ELSE IF held = Undef THEN read \in {Undef, S1("undefined")}
     ELSE IF PlainValue(held) \/ held = Num(0) THEN read = Stringify(held)
     ELSE read \in {Undef, Stringify(held)}

\* C17: unwrapSnaptradeResponse returns for every upstream result: for an
\* object with a data field the payload is that field, headers the sibling
\* headers field and requestId the x-request-id header read from it;
\* otherwise the payload is the whole result, without headers and requestId.
C17_UnwrapTotal ==
  Resolved =>
    /\ DOMAIN unwrapped = {"data", "requestId", "headers"}
    /\ IF IsEnvelope
       THEN /\ unwrapped.data = Field(upstream, "data")
            /\ unwrapped.headers = Field(upstream, "headers")
            /\ unwrapped.requestId.t \in {"undef", "str"}
            /\ ReadsAs(Field(upstream, "headers"), "x-request-id", unwrapped.requestId)
       ELSE /\ unwrapped.data = upstream
            /\ unwrapped.headers = Undef
            /\ unwrapped.requestId = Undef

C17_Witness ==
  /\ Resolved
  /\ IsEnvelope
  /\ Field(upstream, "headers").t = "hdr"
  /\ Field(upstream, "headers").get = "none"
  /\ Field(upstream, "headers").forEach = "iter"
  /\ unwrapped.data = SamplePayload
  /\ unwrapped.headers = Field(upstream, "headers")
  /\ unwrapped.requestId = S1("req-1")

\* the payload of the upstream result
ResultPayload == IF IsEnvelope THEN Field(upstream, "data") ELSE upstream

\* the response header is the upstream header: unset when the carrier holds
\* no value under the name (no entry, a null or undefined one, an empty one,
\* or a carrier that cannot be read), the held value as a string otherwise
Propagated(h, name, header) ==
  LET held == IF h.t # "hdr" \/ MethodThrows(h, name) THEN Undef
              ELSE CarriedValue(h, name)
  IN header = (IF held.t \in {"undef", "null"} \/ held = Str(<<>>) THEN Undef
               ELSE Stringify(held))

\* C18: on every route a resolved upstream call is answered with 200 and the
\* upstream payload as the body; X-SnapTrade-Request-ID is set when the
\* upstream headers carry a request id, and each X-SnapTrade-RateLimit-*
\* header is set exactly when the upstream x-ratelimit-* header is present.
C18_SuccessVerbatim ==
  Resolved =>
    /\ req[1].in.route \in Routes
    /\ req[1].pc = "done" /\ req[1].outcome = "resolved" /\ req[1].resp = response
    /\ response.status = Num(200)
    /\ response.body = Serialize(ResultPayload)
    /\ Propagated(BridgeHeaders, "x-request-id", response.headers["X-SnapTrade-Request-ID"])
    /\ Propagated(BridgeHeaders, "x-ratelimit-limit",
                  response.headers["X-SnapTrade-RateLimit-Limit"])
    /\ Propagated(BridgeHeaders, "x-ratelimit-remaining",
                  response.headers["X-SnapTrade-RateLimit-Remaining"])
    /\ Propagated(BridgeHeaders, "x-ratelimit-reset",
                  response.headers["X-SnapTrade-RateLimit-Reset"])

(***************************************************************************)
(* Header propagation on classified failures (SpecNormalize)               *)
(***************************************************************************)
\* C19: on every classified failure, Shape A and Shape B alike, each of the
\* three rate-limit headers and Retry-After is set exactly when the failure's
\* headers object holds the corresponding upstream header, to the upstream
\* value; an absent upstream header leaves the response header unset.
C19_FailureHeadersExactlyWhenPresent ==
  shape \in {"A", "B"} =>
    /\ Propagated(FailureHeaders, "x-ratelimit-limit",
                  response.headers["X-SnapTrade-RateLimit-Limit"])
    /\ Propagated(FailureHeaders, "x-ratelimit-remaining",
                  response.headers["X-SnapTrade-RateLimit-Remaining"])
    /\ Propagated(FailureHeaders, "x-ratelimit-reset",
                  response.headers["X-SnapTrade-RateLimit-Reset"])
    /\ Propagated(FailureHeaders, "retry-after", response.headers["Retry-After"])

(***************************************************************************)
(* The admission-denied response of /crypto/place (Spec)                   *)
(***************************************************************************)
\* Math.ceil(ms / 1000)
CeilSeconds(ms) == (ms + 999) \div 1000

\* C20: every admission-denied placement is answered with 429 and the body
\* {error: "rate_limited", message, retryAfterMs}, retryAfterMs being the
\* limiter's value, and with a Retry-After header equal to retryAfterMs in
\* whole seconds rounded up, which is never less than 1.
C20_DeniedPlacementResponse ==
  \A i \in Requests :
    Denied(i) =>
      /\ req[i].in.route = "/crypto/place"
      /\ req[i].pc = "done" /\ req[i].calls = 0
      /\ req[i].resp.status = Num(429)
      /\ DOMAIN req[i].resp.body.v = {"error", "message", "retryAfterMs"}
      /\ req[i].resp.body.v.error = S1("rate_limited")
      /\ req[i].resp.body.v.message.t = "str"
      /\ req[i].resp.body.v.retryAfterMs = Num(req[i].acquire.retryAfterMs)
      /\ req[i].resp.headers["Retry-After"]
           = Str(NumToString(CeilSeconds(req[i].acquire.retryAfterMs)))
      /\ CeilSeconds(req[i].acquire.retryAfterMs) >= 1

C20_Witness ==
  \E i \in Requests :
    /\ Denied(i)
    /\ req[i].acquire.retryAfterMs = 999
    /\ req[i].resp.status = Num(429)
    /\ req[i].resp.body.v.retryAfterMs = Num(999)
    /\ req[i].resp.headers["Retry-After"] = S1("1")

(***************************************************************************)
(* The throttle map over the steps of the server (Spec)                    *)
(***************************************************************************)
\* in this step request i calls tryAcquire
AcquiresNow(i) == ~req[i].acquire.called /\ req'[i].acquire.called

\* the step leaves the map as it is
MapUnchanged == lastExecution' = lastExecution

\* the step is an Allowed tryAcquire of request i: the entry of its key
\* becomes the current time, every other entry stays
AllowedStep(i) ==
  /\ AcquiresNow(i)
  /\ req'[i].acquire.allowed
  /\ req'[i].in.route = "/crypto/place"
  /\ lastExecution' =
       [lastExecution EXCEPT
          ![LimiterKey(req'[i].in.accountId, req'[i].in.userId)] = Num(now')]

MapStep ==
  /\ MapUnchanged \/ \E i \in Requests : AllowedStep(i)
  /\ \A i \in Requests :
       (AcquiresNow(i) /\ ~req'[i].acquire.allowed) => MapUnchanged
  /\ (\A i \in Requests : ~AcquiresNow(i)) => MapUnchanged
  /\ \A k \in LimiterKeys : lastExecution[k] # Undef => lastExecution'[k] # Undef

\* C21: the throttle map changes only through an Allowed tryAcquire, which
\* sets exactly the acquired key's entry to the current time; a Denied
\* tryAcquire and every step of the other operations leave it unchanged, and
\* no entry is ever removed.
C21_MapChangesOnlyOnAllowed == [][MapStep]_vars

C21_Witness ==
  \E i, j \in Requests :
    /\ Allowed(i) /\ Denied(j)
    /\ ReqKey(i) = ReqKey(j)
    /\ lastExecution[ReqKey(i)] = Num(req[i].acquire.at)
    /\ req[j].acquire.at > req[i].acquire.at

\* C22: placement is throttled per account: of two /crypto/place requests with
\* the same accountId, whatever their userId, that call the limiter less than
\* the minimum interval apart, at most one is admitted and forwarded; the
\* other is answered 429.
C22_OnePerAccountPerSecond ==
  \A i, j \in Requests :
    (/\ i # j /\ Called(i) /\ Called(j)
     /\ req[i].in.accountId = req[j].in.accountId
     /\ Apart(i, j) < minIntervalMs)
      => /\ ~(Allowed(i) /\ Allowed(j))
         /\ req[i].calls + req[j].calls <= 1

(***************************************************************************)
(* Properties of the shared-secret middleware (SpecAuth)                   *)
(***************************************************************************)
\* a secret is configured
SecretConfigured == Truthy(sharedSecret)

\* request i has arrived
Arrived(i) == req[i].pc # "idle"

\* request i was answered by the middleware's 401, before anything else ran
RejectedUnauthorized(i) ==
  /\ req[i].pc = "done"
  /\ req[i].resp.status = Num(401)
  /\ req[i].resp.body.v.error = S1("unauthorized")
  /\ req[i].calls = 0
  /\ ~req[i].acquire.called
  /\ req[i].responses = 1

\* C23: with a shared secret configured, a request to /orders/* or /equity/*
\* whose X-Coinage-TS-Secret header is missing or differs from the secret is
\* answered 401 "unauthorized" before validation and never reaches the
\* upstream; with no secret configured the check is skipped and the request
\* goes on to validation.
C23_GuardedRoutesRequireSecret ==
  \A i \in Requests :
    (Arrived(i) /\ req[i].in.route \in GuardedRoutes)
      => /\ (SecretConfigured /\ provided[i] # sharedSecret) => RejectedUnauthorized(i)
         /\ (~SecretConfigured \/ provided[i] = sharedSecret)
              => /\ req[i].resp.status # Num(401)
                 /\ req[i].in.body # "valid"
                      => req[i].pc \in {"body", "done"} /\ req[i].calls = 0
                 /\ (req[i].pc = "done" /\ req[i].in.body # "valid")
                      => req[i].resp.status = Num(400)

C23_Witness ==
  /\ sharedSecret = S1("bridge-secret")
  /\ provided[1] = Undef
  /\ req[1].in.route = "/orders/detail"
  /\ req[1].in.body = "invalid"
  /\ RejectedUnauthorized(1)

\* C24: with a shared secret configured, a /crypto/* request that omits the
\* X-Coinage-TS-Secret header is answered 401 and reaches neither the
\* upstream client nor the limiter.
C24_CryptoRoutesRequireSecret ==
  \A i \in Requests :
    ( /\ Arrived(i)
      /\ req[i].in.route \notin GuardedRoutes
      /\ SecretConfigured
      /\ provided[i] = Undef )
      => RejectedUnauthorized(i)

(***************************************************************************)
(* Properties of order validation and forwarding (SpecOrders)              *)
(***************************************************************************)
CryptoRoutes == {"/crypto/preview", "/crypto/place"}

\* the order at hand is a JSON object sent to a crypto order route
CryptoOrderSubmitted ==
  order.pc # "idle" /\ order.route \in CryptoRoutes /\ order.raw.t = "obj"

\* the fields a cross-field requirement asks for and payload does not carry
MissingFields(payload) ==
  LET type == Field(payload, "type")
  IN {f \in {"limit_price", "stop_price", "expiration_date"} :
        /\ Field(payload, f) = Undef
        /\ \/ f = "limit_price"
              /\ type \in {S1("LIMIT"), S1("STOP_LOSS_LIMIT"), S1("TAKE_PROFIT_LIMIT")}
           \/ f = "stop_price"
              /\ type \in {S1("STOP_LOSS_MARKET"), S1("STOP_LOSS_LIMIT"),
                           S1("TAKE_PROFIT_MARKET"), S1("TAKE_PROFIT_LIMIT")}
           \/ f = "expiration_date" /\ Field(payload, "time_in_force") = S1("GTD")}

\* the response r is a 400 validation_error
IsValidationError(r) ==
  /\ r.status = Num(400)
  /\ r.body.t = "obj"
  /\ Field(r.body, "error") = S1("validation_error")

\* r carries, under the path f, a field error whose message contains "required"
HasRequiredError(r, f) ==
  LET fieldErrors == r.body.v.issues.v.fieldErrors
  IN /\ HasField(fieldErrors, f)
     /\ \E i \in DOMAIN fieldErrors.v[f].v :
          \E j \in DOMAIN fieldErrors.v[f].v[i].v : fieldErrors.v[f].v[i].v[j] = "required"

\* every field of the payload that is present has its declared type, and the
\* enumerated ones a declared value
WellTyped(payload) ==
  /\ \A k \in {"accountId", "userId", "userSecret", "side", "type", "time_in_force",
               "amount"} : Field(payload, k).t = "str"
  /\ Field(payload, "instrument").t = "obj"
  /\ Field(payload, "type") \in {S1(ty) : ty \in OrderTypes}
  /\ Field(payload, "time_in_force") \in {S1("GTC"), S1("FOK"), S1("IOC"), S1("GTD")}
  /\ \A k \in {"limit_price", "stop_price", "expiration_date"} :
       Field(payload, k).t \in {"undef", "str"}
  /\ Field(payload, "post_only").t \in {"undef", "bool"}

EquityRoutes == {"/equity/impact", "/equity/place"}

\* the order at hand is a JSON object sent to an equity order route
EquityOrderSubmitted ==
  order.pc # "idle" /\ order.route \in EquityRoutes /\ order.raw.t = "obj"

Supplied(payload, k) == Field(payload, k) # Undef

\* exactly one identifier, exactly one sizing, notional only for Market + Day
MeetsEquityRules(payload) ==
  /\ Supplied(payload, "symbol") # Supplied(payload, "universalSymbolId")
  /\ Supplied(payload, "units") # Supplied(payload, "notionalValue")
  /\ Supplied(payload, "notionalValue")
       => /\ Field(payload, "orderType") = S1("Market")
          /\ Field(payload, "timeInForce") = S1("Day")

\* the validation error r reports at least one issue
ReportsIssue(r) ==
  \/ r.body.v.issues.v.formErrors.v # <<>>
  \/ DOMAIN r.body.v.issues.v.fieldErrors.v # {}

\* C26: an equity order payload reaches the upstream client only if it
\* carries exactly one of symbol and universalSymbolId, exactly one of units
\* and notionalValue, and notionalValue only with orderType Market and
\* timeInForce Day; every other payload is answered with a validation error
\* naming an issue and is never forwarded.
C26_EquityExclusivityEnforced ==
  EquityOrderSubmitted
    => /\ order.calls = 1 => MeetsEquityRules(order.raw)
       /\ ~MeetsEquityRules(order.raw)
            => /\ order.pc = "done"
               /\ order.calls = 0
               /\ order.request = Undef
               /\ IsValidationError(order.resp)
               /\ ReportsIssue(order.resp)

C26_Witness ==
  /\ EquityOrderSubmitted
  /\ order.route = "/equity/place"
  /\ Field(order.raw, "units") = Num(0)
  /\ Field(order.raw, "notionalValue") = Num(5)
  /\ Field(order.raw, "symbol") = S1("AAPL")
  /\ ~Supplied(order.raw, "universalSymbolId")
  /\ Field(order.raw, "orderType") = S1("Market")
  /\ Field(order.raw, "timeInForce") = S1("Day")
  /\ Field(order.raw, "accountId") = S1("acct-1")
  /\ order.calls = 0
  /\ HasField(order.resp.body.v.issues.v.fieldErrors, "units")

\* C27: the one upstream call of a valid crypto preview or placement request
\* receives accountId, userId, userSecret and the order fields as sent, with
\* expiration_date forwarded as expiration_time and never as
\* expiration_date, and without the optional fields that were not supplied.
C27_ForwardedWithOneRename ==
  (CryptoOrderSubmitted /\ order.calls = 1)
    => LET payload == order.raw
           body == Field(order.request, "requestBody")
       IN /\ \A k \in {"accountId", "userId", "userSecret"} :
               Field(order.request, k) = Field(payload, k)
          /\ \A k \in {"instrument", "side", "type", "time_in_force", "amount"} :
               HasField(body, k) /\ Field(body, k) = Field(payload, k)
          /\ \A k \in {"limit_price", "stop_price", "post_only"} :
               /\ HasField(body, k) <=> HasField(payload, k)
               /\ Field(body, k) = Field(payload, k)
          /\ ~HasField(body, "expiration_date")
          /\ HasField(body, "expiration_time") <=> HasField(payload, "expiration_date")
          /\ Field(body, "expiration_time") = Field(payload, "expiration_date")

(***************************************************************************)
(* Admission and the outcome of the upstream call (Spec)                   *)
(***************************************************************************)
\* request i was admitted on /crypto/place and its upstream call failed
AdmittedAndFailed(i) ==
  /\ Allowed(i)
  /\ req[i].in.route = "/crypto/place"
  /\ req[i].outcome = "rejected"

\* in this step request j calls tryAcquire with the key of i, less than
\* minIntervalMs after i was granted
FollowsWithin(i, j) ==
  /\ i # j
  /\ AcquiresNow(j)
  /\ ReqKey(j) = ReqKey(i)
  /\ now' - req[i].acquire.at < minIntervalMs

SlotKeptStep ==
  \A i, j \in Requests :
    (AdmittedAndFailed(i) /\ FollowsWithin(i, j))
      => /\ lastExecution[ReqKey(i)] = Num(req[i].acquire.at)
         /\ lastExecution' = lastExecution
         /\ ~req'[j].acquire.allowed
         /\ req'[j].pc = "done"
         /\ req'[j].resp.status = Num(429)
         /\ req'[j].calls = 0

\* C28: the admission slot is not given back when the upstream call of an
\* admitted /crypto/place request fails: the key's timestamp stays, and a
\* placement request for the same key that follows within minIntervalMs is
\* denied with 429 and forwards nothing.
C28_FailedCallKeepsSlot == [][SlotKeptStep]_vars

C28_Witness ==
  \E i, j \in Requests :
    /\ AdmittedAndFailed(i)
    /\ req[i].pc = "done"
    /\ Denied(j)
    /\ ReqKey(j) = ReqKey(i)
    /\ req[j].acquire.at > req[i].acquire.at
    /\ req[j].acquire.at - req[i].acquire.at < minIntervalMs
    /\ req[j].resp.status = Num(429)
    /\ lastExecution[ReqKey(i)] = Num(req[i].acquire.at)
    /\ \A k \in Requests : req[k].outcome # "resolved"

(***************************************************************************)
(* Retrying against the limiter (SpecRetry)                                *)
(***************************************************************************)
\* in this step the caller calls tryAcquire
AttemptsNow == caller' # caller

\* an attempt made minIntervalMs or more after the first grant is granted
LateAttemptGranted ==
  (AttemptsNow /\ caller.grants = 1 /\ now >= caller.t0 + minIntervalMs)
    => /\ caller'.grants = 2
       /\ caller'.t1 = now
       /\ lastExecution'[RetryKey] = Num(now)

\* C29: denied attempts do not postpone admission: once the key was granted
\* at t0, a tryAcquire at a time >= t0 + minIntervalMs is granted however
\* many attempts were denied in between, and a caller that keeps retrying
\* while the clock advances is granted again.
C29_DeniedNeverPostpones ==
  /\ [][LateAttemptGranted]_vars
  /\ [](caller.grants = 1 => lastExecution[RetryKey] = Num(caller.t0))
  /\ (caller.grants = 1) ~> (caller.grants = 2)

C29_Witness ==
  /\ caller.grants = 2
  /\ caller.denied = MaxDenied
  /\ caller.t1 = caller.t0 + minIntervalMs
  /\ lastExecution[RetryKey] = Num(caller.t1)

(***************************************************************************)
(* Validation before admission on /crypto/place (Spec)                     *)
(***************************************************************************)
\* request i is a placement whose body fails validation
RejectedPlacement(i) == req[i].in.route = "/crypto/place" /\ FailedValidation(i)

\* a step of a placement that fails validation leaves the map as it is
RejectionStep ==
  \A i \in Requests :
    ( /\ req'[i] # req[i]
      /\ req'[i].in.route = "/crypto/place"
      /\ req'[i].in.body # "valid" )
      => lastExecution' = lastExecution

\* a placement that fails validation is answered 400 without tryAcquire
RejectedBeforeAdmission ==
  \A i \in Requests :
    RejectedPlacement(i)
      => /\ ~Called(i)
         /\ req[i].calls = 0
         /\ req[i].pc \in {"body", "done"}
         /\ req[i].pc = "done" => req[i].resp.status = Num(400)

\* every denial is due to a grant given to a request that passed validation
DenialsHaveGrant ==
  \A j \in Requests :
    Denied(j)
      => \E k \in Requests \ {j} :
           /\ Allowed(k)
           /\ req[k].in.body = "valid"
           /\ ReqKey(k) = ReqKey(j)
           /\ req[k].acquire.at <= req[j].acquire.at
           /\ req[j].acquire.at - req[k].acquire.at < minIntervalMs

\* C30: on /crypto/place validation comes before admission and admission
\* before the upstream call: a placement answered 400 never calls tryAcquire
\* and leaves the map unchanged, so no valid request is denied because of it.
C30_ValidationBeforeAdmission ==
  /\ [][RejectionStep]_vars
  /\ []RejectedBeforeAdmission
  /\ []DenialsHaveGrant

C30_Witness ==
  \E i, j \in Requests :
    /\ RejectedPlacement(i)
    /\ req[i].pc = "done"
    /\ req[i].resp.status = Num(400)
    /\ req[j].in.route = "/crypto/place"
    /\ req[j].in.body = "valid"
    /\ ReqKey(j) = ReqKey(i)
    /\ Allowed(j)
    /\ req[j].calls = 1
    /\ lastExecution[ReqKey(i)] = Num(req[j].acquire.at)

====
